---- MODULE Spec2Model ----
(***************************************************************************)
(* NET_SIM: topology construction (modules/topology_builder.py), link      *)
(* failure and the threaded Day-1 simulation (modules/simulator.py).       *)
(*                                                                         *)
(* Text is modelled as a sequence of one-character strings, so that        *)
(* str.split, str.strip, str.lower and the substring test are computed.    *)
(* A Python dict is a sequence of entries in insertion order.              *)
(***************************************************************************)
EXTENDS Integers, Sequences, FiniteSets, Bags, TLC

VARIABLES
    phase,          \* which step of the pipeline of main.py has run
    parsed_configs, \* hostname -> parsed config, in insertion order
    links_txt,      \* the lines of links.txt in config_dir (none: no file)
    raw_links,      \* what parse_links_file returned
    G,              \* the networkx.Graph
    link_key,       \* the key of the last simulate_link_failure call
    log_collector,  \* the module-global LogCollector (or None)
    nfail,          \* number of simulate_link_failure calls so far
    run,            \* number of run_day1_simulation calls begun
    opc,            \* where the caller of run_day1_simulation is
    oi,             \* the caller's loop index over G.nodes() / threads
    STOP_EVENT,     \* the module-global threading.Event
    BROKER_QUEUE,   \* the module-global Queue
    inbox,          \* inbox_map of each call: node -> Queue
    dpc,            \* where each DeviceThread of each call is
    hi,             \* each DeviceThread's index into its neighbors list
    running,        \* DeviceThread.running
    bpc,            \* where the broker thread of each call is
    bmsg,           \* the message the broker holds between get and put
    dequeued,       \* history: the messages each broker took, in order
    taken,          \* history: the messages each device took, in order
    issues,         \* what the last validate_topology call returned
    nvalid,         \* number of validate_topology calls so far
    pop_order,      \* the order in which this process pops nodes off a set
    report          \* what the last analyze_network call returned

topoVars == <<phase, parsed_configs, links_txt, raw_links, G, link_key, nfail>>

simVars == <<run, opc, oi, STOP_EVENT, BROKER_QUEUE, inbox, dpc, hi, running,
             bpc, bmsg, dequeued, taken>>

valVars == <<issues, nvalid, pop_order, report>>

vars == <<topoVars, log_collector, simVars, valVars>>

----------------------------------------------------------------------------
(* Bounds *)

MaxFails == 2
MaxKeyLen == 3
MaxRuns == 2
MaxStragglers == 1

----------------------------------------------------------------------------
(* LogCollector: its lines, each with the number of times it was appended  *)
(* (the order of the list is not kept); None before the first collector    *)

None == [set |-> FALSE, logs |-> EmptyBag]

LogCollector == [set |-> TRUE, logs |-> EmptyBag]

\* if log_collector: log_collector.append(msg)
LogAppend(lc, msg) ==
    IF lc.set THEN [lc EXCEPT !.logs = @ (+) SetToBag({msg})] ELSE lc

RECURSIVE LogAppendAll(_, _)
LogAppendAll(lc, msgs) ==
    IF msgs = <<>> THEN lc ELSE LogAppendAll(LogAppend(lc, Head(msgs)), Tail(msgs))

----------------------------------------------------------------------------
(* Simulation messages *)

Runs == 1..MaxRuns

NoMsg == [type |-> "none"]

\* {"type": ..., "src": ..., "dst": ..., "time": time.time()}: the call the
\* sender belongs to stands for the time stamp
Msg(type, src, dst, r) == [type |-> type, src |-> src, dst |-> dst, time |-> r]

----------------------------------------------------------------------------
(* Text *)

Range(s) == {s[i] : i \in 1..Len(s)}

Min(a, b) == IF a <= b THEN a ELSE b

\* str.lower, on the characters the model uses
LowerChar(c) == IF c = "E" THEN "e" ELSE IF c = "F" THEN "f" ELSE c

Lower(s) == [i \in 1..Len(s) |-> LowerChar(s[i])]

RECURSIVE Strip(_)
Strip(s) ==
    IF s = <<>> THEN s
    ELSE IF Head(s) = " " THEN Strip(Tail(s))
    ELSE IF s[Len(s)] = " " THEN Strip(SubSeq(s, 1, Len(s) - 1))
    ELSE s

\* str.split(sep) for a one-character separator: every occurrence splits
RECURSIVE Split(_, _)
Split(s, sep) ==
    IF sep \notin Range(s) THEN <<s>>
    ELSE LET i == CHOOSE k \in 1..Len(s) :
                      s[k] = sep /\ \A j \in 1..(k - 1) : s[j] # sep
         IN  <<SubSeq(s, 1, i - 1)>> \o Split(SubSeq(s, i + 1, Len(s)), sep)

\* str.split(sep, 1): only the first occurrence splits
SplitOnce(s, sep) ==
    IF sep \notin Range(s) THEN <<s>>
    ELSE LET i == CHOOSE k \in 1..Len(s) :
                      s[k] = sep /\ \A j \in 1..(k - 1) : s[j] # sep
         IN  <<SubSeq(s, 1, i - 1), SubSeq(s, i + 1, Len(s))>>

\* sub in s
IsSubstr(sub, s) ==
    \E i \in 0..(Len(s) - Len(sub)) : SubSeq(s, i + 1, i + Len(sub)) = sub

\* f"{dev}:{ifname}"
Endpoint(dev, ifname) == dev \o <<":">> \o ifname

----------------------------------------------------------------------------
(* IPv4 addresses: dotted quads <<a, b, c, d>> *)

ValidQuad(q) == Len(q) = 4 /\ \A i \in 1..4 : q[i] \in 0..255

\* 2^n for the bits of an octet
Pow2(n) == <<1, 2, 4, 8, 16, 32, 64, 128, 256>>[n + 1]

\* how many of the prefix's p bits fall in octet i
PrefixBits(p, i) ==
    IF p <= 8 * (i - 1) THEN 0 ELSE IF p >= 8 * i THEN 8 ELSE p - 8 * (i - 1)

\* the leading one bits of a mask octet, -1 when its ones are not leading
OctetBits(o) ==
    CASE o = 0 -> 0 [] o = 128 -> 1 [] o = 192 -> 2 [] o = 224 -> 3
      [] o = 240 -> 4 [] o = 248 -> 5 [] o = 252 -> 6 [] o = 254 -> 7
      [] o = 255 -> 8 [] OTHER -> -1

IsNetmask(m) ==
    /\ \A i \in 1..4 : OctetBits(m[i]) >= 0
    /\ \A i \in 1..3 : m[i] # 255 => m[i + 1] = 0

\* the prefix lengths a dotted mask stands for: as a netmask, else as a hostmask
NetmaskPrefixes(m) ==
    IF IsNetmask(m)
    THEN {OctetBits(m[1]) + OctetBits(m[2]) + OctetBits(m[3]) + OctetBits(m[4])}
    ELSE {}

HostmaskPrefixes(m) == NetmaskPrefixes([i \in 1..4 |-> 255 - m[i]])

ValidNetwork(ip, mask) ==
    /\ ValidQuad(ip) /\ ValidQuad(mask)
    /\ NetmaskPrefixes(mask) \cup HostmaskPrefixes(mask) # {}

PrefixLen(mask) ==
    IF NetmaskPrefixes(mask) # {} THEN CHOOSE p \in NetmaskPrefixes(mask) : TRUE
    ELSE CHOOSE p \in HostmaskPrefixes(mask) : TRUE

\* IPv4Network(f"{ip}/{mask}", strict=False).network_address
NetworkAddress(ip, mask) ==
    LET p == PrefixLen(mask)
    IN  [i \in 1..4 |-> ip[i] - (ip[i] % Pow2(8 - PrefixBits(p, i)))]

\* utils.py binds no name `log`: its uses raise NameError
UtilsLogBound == FALSE

\* "true" / "false" as returned, "raise" when the call raises
is_same_subnet(ip1, mask1, ip2, mask2) ==
    IF ~UtilsLogBound THEN "raise"
    ELSE IF ValidNetwork(ip1, mask1) /\ ValidNetwork(ip2, mask2)
         THEN IF /\ NetworkAddress(ip1, mask1) = NetworkAddress(ip2, mask2)
                 /\ PrefixLen(mask1) = PrefixLen(mask2)
              THEN "true" ELSE "false"
         ELSE "false"

----------------------------------------------------------------------------
(* Dicts of interfaces: sequences of records with a "name" and the fields  *)
(* the config declared                                                     *)

Has(d, k) == k \in DOMAIN d

Get(d, k, default) == IF k \in DOMAIN d THEN d[k] ELSE default

IfaceNames(ifs) == {ifs[i].name : i \in 1..Len(ifs)}

IfaceOf(ifs, n) == ifs[CHOOSE i \in 1..Len(ifs) : ifs[i].name = n]

Rename(ifd, n) == [k \in DOMAIN ifd |-> IF k = "name" THEN n ELSE ifd[k]]

\* {k.strip().lower(): v for k, v in interfaces.items()}
RECURSIVE NormalizeIfaces(_, _)
NormalizeIfaces(ifs, acc) ==
    IF ifs = <<>> THEN acc
    ELSE LET k == Lower(Strip(Head(ifs).name))
             v == Rename(Head(ifs), k)
         IN  NormalizeIfaces(Tail(ifs),
                 IF k \in IfaceNames(acc)
                 THEN [i \in 1..Len(acc) |-> IF acc[i].name = k THEN v ELSE acc[i]]
                 ELSE Append(acc, v))

Normalize(configs) ==
    [i \in 1..Len(configs) |->
        [k \in DOMAIN configs[i] |->
            IF k = "interfaces" THEN NormalizeIfaces(configs[i].interfaces, <<>>)
            ELSE configs[i][k]]]

HostNames(configs) == {configs[i].host : i \in 1..Len(configs)}

ConfigOf(configs, h) == configs[CHOOSE i \in 1..Len(configs) : configs[i].host = h]

----------------------------------------------------------------------------
(* networkx.Graph: nodes and adjacency in insertion order, one attribute   *)
(* dict per unordered pair                                                 *)

EmptyGraph == [nodes |-> <<>>, adj |-> <<>>, attr |-> <<>>]

NodeSet(g) == Range(g.nodes)

add_nodes(configs) ==
    [nodes |-> [i \in 1..Len(configs) |-> configs[i].host],
     adj   |-> [h \in HostNames(configs) |-> <<>>],
     attr  |-> <<>>]

has_edge(g, a, b) == a \in NodeSet(g) /\ b \in Range(g.adj[a])

\* a variant that leaves out the neighbors behind a link that is down
NeighborsUp(g, n) ==
    LET IsUp(m) == g.attr[{n, m}].up
    IN  SelectSeq(g.adj[n], IsUp)

neighbors(g, n) == g.adj[n]

EdgeKeys(g) == DOMAIN g.attr

add_edge(g, u, v, attrs) ==
    [nodes |-> g.nodes,
     adj   |-> [n \in DOMAIN g.adj |->
                   IF n = u /\ v \notin Range(g.adj[n]) THEN Append(g.adj[n], v)
                   ELSE IF n = v /\ u \notin Range(g.adj[n]) THEN Append(g.adj[n], u)
                   ELSE g.adj[n]],
     attr  |-> [k \in (DOMAIN g.attr) \cup {{u, v}} |->
                   IF k = {u, v} THEN attrs ELSE g.attr[k]]]

----------------------------------------------------------------------------
(* parse_links_file *)

\* lines 103-121: what one line of the file adds to links
ParseLine(text) ==
    LET line == Strip(text)
    IN  IF line = <<>> \/ Head(line) = "#" THEN <<>>
        ELSE IF "-" \notin Range(line) THEN <<>>
        ELSE LET left  == Strip(SplitOnce(line, "-")[1])
                 right == Strip(SplitOnce(line, "-")[2])
             IN  IF ":" \notin Range(left) \/ ":" \notin Range(right) THEN <<>>
                 ELSE << <<left, right>> >>

RECURSIVE parse_links_file(_)
parse_links_file(lines) ==
    IF lines = <<>> THEN <<>>
    ELSE ParseLine(Head(lines)) \o parse_links_file(Tail(lines))

----------------------------------------------------------------------------
(* build_topology *)

DefaultMtu == 1500
DefaultBandwidth == 1000

\* lines 60-70: each endpoint must split on ":" into exactly two parts
RECURSIVE explicit_links(_)
explicit_links(raw) ==
    IF raw = <<>> THEN <<>>
    ELSE LET p1 == Split(Head(raw)[1], ":")
             p2 == Split(Head(raw)[2], ":")
         IN  (IF Len(p1) = 2 /\ Len(p2) = 2
              THEN << <<Strip(p1[1]), Lower(Strip(p1[2])),
                        Strip(p2[1]), Lower(Strip(p2[2]))>> >>
              ELSE <<>>) \o explicit_links(Tail(raw))

\* a variant that takes the edge's mtu from the first interface alone
ExplicitAttrsFirstMtu(dev1, ifd1, dev2, ifd2) ==
    [ifaces    |-> <<Endpoint(dev1, ifd1.name), Endpoint(dev2, ifd2.name)>>,
     mtu       |-> Get(ifd1, "mtu", DefaultMtu),
     bandwidth |-> Min(Get(ifd1, "bandwidth", DefaultBandwidth),
                       Get(ifd2, "bandwidth", DefaultBandwidth)),
     up        |-> TRUE,
     source    |-> "explicit"]

\* lines 87-101: the attributes of an explicit edge
ExplicitAttrs(dev1, ifd1, dev2, ifd2) ==
    [ifaces    |-> <<Endpoint(dev1, ifd1.name), Endpoint(dev2, ifd2.name)>>,
     mtu       |-> Min(Get(ifd1, "mtu", DefaultMtu), Get(ifd2, "mtu", DefaultMtu)),
     bandwidth |-> Min(Get(ifd1, "bandwidth", DefaultBandwidth),
                       Get(ifd2, "bandwidth", DefaultBandwidth)),
     up        |-> TRUE,
     source    |-> "explicit"]

\* lines 76-104: one explicit link; unknown devices and absent interfaces skip it
AddExplicit(g, configs, l) ==
    IF l[1] \in NodeSet(g) /\ l[3] \in NodeSet(g)
    THEN LET interfaces1 == ConfigOf(configs, l[1]).interfaces
             interfaces2 == ConfigOf(configs, l[3]).interfaces
         IN  IF l[2] \notin IfaceNames(interfaces1) THEN g
             ELSE IF l[4] \notin IfaceNames(interfaces2) THEN g
             ELSE add_edge(g, l[1], l[3],
                      ExplicitAttrs(l[1], IfaceOf(interfaces1, l[2]),
                                    l[3], IfaceOf(interfaces2, l[4])))
    ELSE g

RECURSIVE AddExplicitAll(_, _, _)
AddExplicitAll(g, configs, ls) ==
    IF ls = <<>> THEN g
    ELSE AddExplicitAll(AddExplicit(g, configs, Head(ls)), configs, Tail(ls))

\* lines 118-120: the interfaces of pa whose description names b
DescMatches(pa, b) ==
    {i \in 1..Len(pa.interfaces) :
        LET desc == Get(pa.interfaces[i], "description", <<>>)
        IN  desc # <<>> /\ IsSubstr(b, desc)}

\* lines 121-123: the attributes of a description-hint edge
DescAttrs(a, ifd) ==
    [ifaces    |-> <<Endpoint(a, ifd.name)>>,
     mtu       |-> Min(Get(ifd, "mtu", DefaultMtu), 1500),
     bandwidth |-> Get(ifd, "bandwidth", DefaultBandwidth),
     up        |-> TRUE,
     source    |-> "desc_hint"]

\* line 138: is_same_subnet(ifd["ip"], ifd["mask"], ifdb["ip"], ifdb["mask"]);
\* a missing "mask" raises KeyError, any exception is caught at line 145
SubnetTest(ifd, ifdb) ==
    IF ~Has(ifd, "mask") \/ ~Has(ifdb, "mask") THEN "raise"
    ELSE is_same_subnet(ifd.ip, ifd.mask, ifdb.ip, ifdb.mask)

\* lines 131-148: the pairs (i, j) the loops accept, both with an "ip"
SubnetMatches(pa, pb) ==
    {p \in (1..Len(pa.interfaces)) \X (1..Len(pb.interfaces)) :
        /\ Has(pa.interfaces[p[1]], "ip")
        /\ Has(pb.interfaces[p[2]], "ip")
        /\ SubnetTest(pa.interfaces[p[1]], pb.interfaces[p[2]]) = "true"}

\* the first pair in loop order: outer loop over a's interfaces
FirstPair(ps) ==
    CHOOSE p \in ps : \A q \in ps : p[1] < q[1] \/ (p[1] = q[1] /\ p[2] <= q[2])

\* lines 139-141: the attributes of a subnet edge
SubnetAttrs(a, ifd, b, ifdb) ==
    [ifaces    |-> <<Endpoint(a, ifd.name), Endpoint(b, ifdb.name)>>,
     mtu       |-> Min(Get(ifd, "mtu", DefaultMtu), Get(ifdb, "mtu", DefaultMtu)),
     bandwidth |-> Min(Get(ifd, "bandwidth", DefaultBandwidth),
                       Get(ifdb, "bandwidth", DefaultBandwidth)),
     up        |-> TRUE,
     source    |-> "subnet"]

\* a variant without the has_edge test of lines 111-112
InferPairNoSkip(g, configs, i, j) ==
    LET pa == configs[i]
        dm == DescMatches(pa, configs[j].host)
    IN  IF dm # {}
        THEN add_edge(g, pa.host, configs[j].host,
                 DescAttrs(pa.host, pa.interfaces[CHOOSE k \in dm : \A m \in dm : k <= m]))
        ELSE g

\* lines 110-148: the inference for one pair a = hosts[i], b = hosts[j]
InferPair(g, configs, i, j) ==
    LET pa == configs[i]
        pb == configs[j]
        a  == pa.host
        b  == pb.host
        dm == DescMatches(pa, b)
        sm == SubnetMatches(pa, pb)
    IN  IF has_edge(g, a, b) THEN g
        ELSE IF dm # {}
             THEN add_edge(g, a, b,
                      DescAttrs(a, pa.interfaces[CHOOSE k \in dm : \A m \in dm : k <= m]))
        ELSE IF sm # {}
             THEN add_edge(g, a, b,
                      SubnetAttrs(a, pa.interfaces[FirstPair(sm)[1]],
                                  b, pb.interfaces[FirstPair(sm)[2]]))
        ELSE g

\* lines 108-109: for i in range(n): for j in range(i + 1, n)
RECURSIVE InferFrom(_, _, _, _)
InferFrom(g, configs, i, j) ==
    IF i > Len(configs) THEN g
    ELSE IF j > Len(configs) THEN InferFrom(g, configs, i + 1, i + 2)
    ELSE InferFrom(InferPair(g, configs, i, j), configs, i, j + 1)

build_topology(configs, raw) ==
    LET norm == Normalize(configs)
    IN  InferFrom(AddExplicitAll(add_nodes(norm), norm, explicit_links(raw)),
                  norm, 1, 2)

----------------------------------------------------------------------------
(* Inputs: what parse_all_configs and parse_links_file can return *)

HostA == <<"A">>
HostB == <<"B">>
HostC == <<"C">>
AllHosts == <<HostA, HostB, HostC>>

Mask24 == <<255, 255, 255, 0>>
Mask16 == <<255, 255, 0, 0>>

\* interface blocks of device number h, as parse_config_file reads them
Plain(n) == [name |-> n]
Lan24(n, h) == [name |-> n, ip |-> <<10, 0, 0, h>>, mask |-> Mask24, mtu |-> 1400]
Lan24b(n, h) == [name |-> n, ip |-> <<10, 0, 0, 10 + h>>, mask |-> Mask24,
                 bandwidth |-> 100]
Lan16(n, h) == [name |-> n, ip |-> <<10, 0, 0, 20 + h>>, mask |-> Mask16,
                bandwidth |-> 100]
ToB(n) == [name |-> n, description |-> <<"t", "o", " ", "B">>, mtu |-> 9000]
ToC(n, h) == [name |-> n, description |-> <<"t", "o", " ", "C">>,
              ip |-> <<10, 0, 0, 30 + h>>, mask |-> Mask24, bandwidth |-> 100]

IfE == <<"E">>
IfF == <<"f">>

IfaceLists(h) ==
    { <<Plain(IfE)>>, <<Lan24(IfE, h)>>, <<Lan16(IfE, h)>>, <<ToB(IfE)>>,
      <<ToC(IfE, h)>>,
      <<Lan16(IfE, h), Lan24(IfF, h)>>,
      <<Lan24(IfE, h), Lan24b(IfF, h)>>,
      <<ToB(IfE), ToC(IfF, h)>>,
      <<Plain(IfE), Plain(IfF)>> }

Device(h, ifs) == [host |-> AllHosts[h], interfaces |-> ifs]

ConfigChoices ==
    { <<Device(1, i1), Device(2, i2)>> :
          i1 \in IfaceLists(1), i2 \in IfaceLists(2) }
    \cup
    { <<Device(1, i1), Device(2, i2), Device(3, i3)>> :
          i1 \in IfaceLists(1), i2 \in IfaceLists(2), i3 \in IfaceLists(3) }

Ep(h, n) == Endpoint(h, n)

\* link-file entries: each side holds a ":" (parse_links_file line 114)
LinkChoices ==
    { <<Ep(HostA, <<"e">>), Ep(HostB, <<"e">>)>>,
      <<Ep(HostB, <<"E">>), Ep(HostC, <<"e">>)>>,
      <<Ep(HostC, <<"e">>), Ep(HostA, <<"f">>)>>,
      <<Ep(HostB, <<"f">>), Ep(HostA, <<"e">>)>>,
      <<Ep(<<"X">>, <<"e">>), Ep(HostA, <<"e">>)>>,
      <<Ep(HostA, <<"e">>), Ep(HostA, <<"f">>)>>,
      <<Ep(HostA, <<"e">>) \o <<":", "x">>, Ep(HostB, <<"e">>)>> }

MaxLinks == 2

RECURSIVE SeqsUpTo(_, _)
SeqsUpTo(S, n) ==
    IF n = 0 THEN {<<>>}
    ELSE LET shorter == SeqsUpTo(S, n - 1)
         IN  shorter \cup {Append(q, x) : q \in shorter, x \in S}

LinkLists == SeqsUpTo(LinkChoices, MaxLinks)

\* the line of links.txt that states a link: "dev:if - dev:if"
LineOf(l) == l[1] \o <<" ", "-", " ">> \o l[2]

LinesOf(ls) == [i \in 1..Len(ls) |-> LineOf(ls[i])]

----------------------------------------------------------------------------
(* The pipeline of main.py: parse, then build                              *)

NoReport == [nodes |-> -1]

\* neither validate_topology nor analyze_network has been called
ValIdle ==
    /\ issues = <<>>
    /\ nvalid = 0
    /\ pop_order = <<>>
    /\ report = NoReport

\* no simulation has been called
SimIdle ==
    /\ run = 0
    /\ opc = "idle"
    /\ oi = 0
    /\ STOP_EVENT = FALSE
    /\ BROKER_QUEUE = <<>>
    /\ inbox = [r \in Runs |-> <<>>]
    /\ dpc = [r \in Runs |-> <<>>]
    /\ hi = [r \in Runs |-> <<>>]
    /\ running = [r \in Runs |-> <<>>]
    /\ bpc = [r \in Runs |-> "none"]
    /\ bmsg = [r \in Runs |-> NoMsg]
    /\ dequeued = [r \in Runs |-> <<>>]
    /\ taken = [r \in Runs |-> <<>>]

TopoInit ==
    /\ SimIdle
    /\ ValIdle
    /\ phase = "parsed"
    /\ parsed_configs \in ConfigChoices
    /\ links_txt \in {LinesOf(ls) : ls \in LinkLists}
    /\ raw_links = <<>>
    /\ G = EmptyGraph
    /\ link_key = <<>>
    /\ log_collector = None
    /\ nfail = 0

\* G = topology_builder.build_topology(parsed, config_dir); the call reads
\* links.txt (line 59) and normalizes the interface keys of parsed in place
\* (lines 37-44)
Build ==
    /\ phase = "parsed"
    /\ phase' = "built"
    /\ raw_links' = parse_links_file(links_txt)
    /\ G' = build_topology(parsed_configs, raw_links')
    /\ parsed_configs' = Normalize(parsed_configs)
    /\ UNCHANGED <<links_txt, link_key, log_collector, nfail, simVars, valVars>>

TopoNext == Build

SpecTopo == TopoInit /\ [][TopoNext]_vars

----------------------------------------------------------------------------
(* simulate_link_failure *)

\* _plain_bfs: the nodes reachable from the nodes of S along adjacency
RECURSIVE Closure(_, _)
Closure(g, S) ==
    LET T == S \cup {m \in NodeSet(g) : \E n \in S : m \in Range(g.adj[n])}
    IN  IF T = S THEN S ELSE Closure(g, T)

\* nx.connected_components(G): one set per unseen node, in node order
RECURSIVE ComponentsFrom(_, _, _)
ComponentsFrom(g, i, seen) ==
    IF i > Len(g.nodes) THEN <<>>
    ELSE IF g.nodes[i] \in seen THEN ComponentsFrom(g, i + 1, seen)
    ELSE LET c == Closure(g, {g.nodes[i]})
         IN  <<c>> \o ComponentsFrom(g, i + 1, seen \cup c)

connected_components(g) == ComponentsFrom(g, 1, {})

\* a variant that leaves the edge's flag as it was
MarkDownSkipped(g, a, b) == g

\* a variant that flips the flag
MarkDownToggle(g, a, b) == [g EXCEPT !.attr[{a, b}].up = ~@]

\* line 169: G[a][b]["up"] = False
MarkDown(g, a, b) == [g EXCEPT !.attr[{a, b}].up = FALSE]

InvalidLine == [kind |-> "invalid_format"]
NoEdgeLine == [kind |-> "no_such_edge"]
DownLine(a, b) == [kind |-> "link_down", a |-> a, b |-> b]
PartitionLine == [kind |-> "partition"]
ComponentLine(c) == [kind |-> "component", members |-> c]

\* lines 174-182: the partition warning
PartitionLines(g) ==
    LET comps == connected_components(g)
    IN  IF Len(comps) > 1
        THEN <<PartitionLine>> \o [i \in 1..Len(comps) |-> ComponentLine(comps[i])]
        ELSE <<>>

\* a variant without the return of line 166: a malformed key goes on to the
\* edge test with its first two parts
SimulateLinkFailureNoReturn(g, key) ==
    LET parts == Split(key, "-")
        a == parts[1]
        b == IF Len(parts) >= 2 THEN parts[2] ELSE <<>>
        bad == IF Len(parts) # 2 THEN <<InvalidLine>> ELSE <<>>
    IN  IF has_edge(g, a, b)
        THEN LET down == MarkDown(g, a, b)
             IN  [graph |-> down,
                  lines |-> bad \o <<DownLine(a, b)>> \o PartitionLines(down)]
        ELSE [graph |-> g, lines |-> bad \o <<NoEdgeLine>>]

\* _simulate_link_failure(G, link_key): the graph after it and the lines it logs
_simulate_link_failure(g, key) ==
    LET parts == Split(key, "-")
    IN  IF Len(parts) # 2 THEN [graph |-> g, lines |-> <<InvalidLine>>]
        ELSE IF has_edge(g, parts[1], parts[2])
             THEN LET down == MarkDown(g, parts[1], parts[2])
                  IN  [graph |-> down,
                       lines |-> <<DownLine(parts[1], parts[2])>> \o PartitionLines(down)]
             ELSE [graph |-> g, lines |-> <<NoEdgeLine>>]

KeyAlphabet == {"A", "B", "C", "-"}

LinkKeys == SeqsUpTo(KeyAlphabet, MaxKeyLen)

\* simulate_link_failure(G, key): a fresh collector, then the private function
FailLink(key) ==
    /\ phase = "built"
    /\ nfail < MaxFails
    /\ nfail' = nfail + 1
    /\ link_key' = key
    /\ LET r == _simulate_link_failure(G, key)
       IN  /\ G' = r.graph
           /\ log_collector' = LogAppendAll(LogCollector, r.lines)
    /\ UNCHANGED <<phase, parsed_configs, links_txt, raw_links, simVars, valVars>>

\* devices without declared addresses, joined by explicit links only
PlainDevice(h) == Device(h, <<Plain(<<"e">>), Plain(<<"f">>)>>)

PlainConfigs ==
    { <<PlainDevice(1), PlainDevice(2)>>,
      <<PlainDevice(1), PlainDevice(2), PlainDevice(3)>> }

LinkAB == <<Ep(HostA, <<"e">>), Ep(HostB, <<"e">>)>>
LinkBC == <<Ep(HostB, <<"f">>), Ep(HostC, <<"e">>)>>
LinkCA == <<Ep(HostC, <<"f">>), Ep(HostA, <<"f">>)>>

RingLinkLists ==
    { <<>>, <<LinkAB>>, <<LinkBC>>, <<LinkCA>>, <<LinkAB, LinkBC>>,
      <<LinkAB, LinkCA>>, <<LinkBC, LinkCA>>, <<LinkAB, LinkBC, LinkCA>> }

FailInit ==
    /\ SimIdle
    /\ ValIdle
    /\ phase = "built"
    /\ parsed_configs \in PlainConfigs
    /\ links_txt \in {LinesOf(ls) : ls \in RingLinkLists}
    /\ raw_links = parse_links_file(links_txt)
    /\ G = build_topology(parsed_configs, raw_links)
    /\ link_key = <<>>
    /\ log_collector = None
    /\ nfail = 0

FailNext == \E key \in LinkKeys : FailLink(key)

SpecFail == FailInit /\ [][FailNext]_vars

----------------------------------------------------------------------------
(* run_day1_simulation: the calling thread *)

NoDst == <<>>

Line(kind, dev, peer, r) == [kind |-> kind, dev |-> dev, peer |-> peer, by |-> r]

\* the caller's own lines name no device
CallerLine(kind, r) == [kind |-> kind, by |-> r]

\* the threads of the calls so far that have not ended
Stragglers ==
    {<<r, n>> \in (1..run) \X NodeSet(G) : dpc[r][n] # "done"}
        \cup {<<r, <<"broker">>>> : r \in {q \in 1..run : bpc[q] # "done"}}

\* lines 122-123: log_collector = LogCollector(); the caller comes back when
\* at most MaxStragglers threads of its earlier calls are still alive
Call ==
    /\ phase = "built"
    /\ opc = "idle"
    /\ run < MaxRuns
    /\ Cardinality(Stragglers) <= MaxStragglers
    /\ run' = run + 1
    /\ log_collector' = LogCollector
    /\ opc' = "clear"
    /\ UNCHANGED <<topoVars, valVars, oi, STOP_EVENT, BROKER_QUEUE, inbox, dpc, hi, running,
                   bpc, bmsg, dequeued, taken>>

\* lines 125-127: STOP_EVENT.clear(); a Queue per node
Clear ==
    /\ opc = "clear"
    /\ STOP_EVENT' = FALSE
    /\ inbox' = [inbox EXCEPT ![run] = [n \in NodeSet(G) |-> <<>>]]
    /\ dpc' = [dpc EXCEPT ![run] = [n \in NodeSet(G) |-> "none"]]
    /\ hi' = [hi EXCEPT ![run] = [n \in NodeSet(G) |-> 0]]
    /\ running' = [running EXCEPT ![run] = [n \in NodeSet(G) |-> FALSE]]
    /\ taken' = [taken EXCEPT ![run] = [n \in NodeSet(G) |-> <<>>]]
    /\ opc' = "spawn"
    /\ oi' = 1
    /\ UNCHANGED <<topoVars, valVars, log_collector, run, BROKER_QUEUE, bpc, bmsg, dequeued>>

\* lines 129-132: DeviceThread(node, G, inbox_map[node]).start()
Spawn ==
    /\ opc = "spawn"
    /\ oi <= Len(G.nodes)
    /\ dpc' = [dpc EXCEPT ![run][G.nodes[oi]] = "boot"]
    /\ running' = [running EXCEPT ![run][G.nodes[oi]] = TRUE]
    /\ oi' = oi + 1
    /\ UNCHANGED <<topoVars, valVars, log_collector, run, opc, STOP_EVENT, BROKER_QUEUE, inbox,
                   hi, bpc, bmsg, dequeued, taken>>

\* lines 134-135: the broker thread
StartBroker ==
    /\ opc = "spawn"
    /\ oi > Len(G.nodes)
    /\ bpc' = [bpc EXCEPT ![run] = "loop"]
    /\ opc' = "startmsg"
    /\ UNCHANGED <<topoVars, valVars, log_collector, run, oi, STOP_EVENT, BROKER_QUEUE, inbox,
                   dpc, hi, running, bmsg, dequeued, taken>>

\* lines 137-139
StartMsg ==
    /\ opc = "startmsg"
    /\ log_collector' = LogAppend(log_collector, CallerLine("sim_started", run))
    /\ opc' = "sleep"
    /\ UNCHANGED <<topoVars, valVars, run, oi, STOP_EVENT, BROKER_QUEUE, inbox, dpc, hi,
                   running, bpc, bmsg, dequeued, taken>>

\* lines 141-143: the sleep ends, STOP_EVENT.set()
SetStop ==
    /\ opc = "sleep"
    /\ STOP_EVENT' = TRUE
    /\ opc' = "stop"
    /\ oi' = 1
    /\ UNCHANGED <<topoVars, valVars, log_collector, run, BROKER_QUEUE, inbox, dpc, hi,
                   running, bpc, bmsg, dequeued, taken>>

\* lines 145-146 and 87-92: t.stop(); STOP_EVENT stays set while this loop
\* runs, so a thread's loop test gives the same answer before and after
\* line 88
StopThread ==
    /\ opc = "stop"
    /\ oi <= Len(G.nodes)
    /\ running' = [running EXCEPT ![run][G.nodes[oi]] = FALSE]
    /\ log_collector' = LogAppend(log_collector,
                                  Line("stopped", G.nodes[oi], NoDst, run))
    /\ oi' = oi + 1
    /\ UNCHANGED <<topoVars, valVars, run, opc, STOP_EVENT, BROKER_QUEUE, inbox, dpc, hi,
                   bpc, bmsg, dequeued, taken>>

\* lines 148-150
EndMsg ==
    /\ opc = "stop"
    /\ oi > Len(G.nodes)
    /\ log_collector' = LogAppend(log_collector, CallerLine("sim_ended", run))
    /\ opc' = "return"
    /\ UNCHANGED <<topoVars, valVars, run, oi, STOP_EVENT, BROKER_QUEUE, inbox, dpc, hi,
                   running, bpc, bmsg, dequeued, taken>>

\* line 153: return log_collector.get_logs(): the call returns the lines the
\* collector holds when this step is taken
Return ==
    /\ opc = "return"
    /\ opc' = "idle"
    /\ UNCHANGED <<topoVars, valVars, log_collector, run, oi, STOP_EVENT, BROKER_QUEUE, inbox,
                   dpc, hi, running, bpc, bmsg, dequeued, taken>>

----------------------------------------------------------------------------
(* DeviceThread.run *)

\* lines 46-54
DevStart(r, n) ==
    /\ dpc[r][n] = "boot"
    /\ log_collector' = LogAppend(log_collector, Line("started", n, NoDst, r))
    /\ dpc' = [dpc EXCEPT ![r][n] = IF neighbors(G, n) = <<>> THEN "loop" ELSE "hello"]
    /\ hi' = [hi EXCEPT ![r][n] = 1]
    /\ UNCHANGED <<topoVars, valVars, run, opc, oi, STOP_EVENT, BROKER_QUEUE, inbox, running,
                   bpc, bmsg, dequeued, taken>>

\* a variant that greets its first neighbor each time round the loop
DevHelloFirst(r, n) ==
    /\ dpc[r][n] = "hello"
    /\ LET nb == neighbors(G, n)[1]
       IN  /\ BROKER_QUEUE' = Append(BROKER_QUEUE, Msg("HELLO", n, nb, r))
           /\ log_collector' = LogAppend(log_collector, Line("sent_hello", n, nb, r))
    /\ hi' = [hi EXCEPT ![r][n] = @ + 1]
    /\ dpc' = [dpc EXCEPT ![r][n] =
                  IF hi[r][n] = Len(neighbors(G, n)) THEN "loop" ELSE "hello"]
    /\ UNCHANGED <<topoVars, valVars, run, opc, oi, STOP_EVENT, inbox, running, bpc, bmsg,
                   dequeued, taken>>

\* lines 55-61: one HELLO per neighbor
DevHello(r, n) ==
    /\ dpc[r][n] = "hello"
    /\ LET nb == neighbors(G, n)[hi[r][n]]
       IN  /\ BROKER_QUEUE' = Append(BROKER_QUEUE, Msg("HELLO", n, nb, r))
           /\ log_collector' = LogAppend(log_collector, Line("sent_hello", n, nb, r))
    /\ hi' = [hi EXCEPT ![r][n] = @ + 1]
    /\ dpc' = [dpc EXCEPT ![r][n] =
                  IF hi[r][n] = Len(neighbors(G, n)) THEN "loop" ELSE "hello"]
    /\ UNCHANGED <<topoVars, valVars, run, opc, oi, STOP_EVENT, inbox, running, bpc, bmsg,
                   dequeued, taken>>

\* line 64: while self.running and not STOP_EVENT.is_set()
DevLoop(r, n) ==
    /\ dpc[r][n] = "loop"
    /\ dpc' = [dpc EXCEPT ![r][n] =
                  IF running[r][n] /\ ~STOP_EVENT THEN "get" ELSE "done"]
    /\ UNCHANGED <<topoVars, valVars, log_collector, run, opc, oi, STOP_EVENT, BROKER_QUEUE,
                   inbox, hi, running, bpc, bmsg, dequeued, taken>>

\* a variant that answers every ARP it is handed
ReplyOfAnyArp(n, msg, r) ==
    IF msg.type = "ARP"
    THEN <<Msg("ARP_REPLY", n, msg.src, r)>> ELSE <<>>

\* lines 72-84: what handling msg puts on BROKER_QUEUE and logs
ReplyOf(n, msg, r) ==
    IF msg.type = "ARP" /\ msg.dst = n
    THEN <<Msg("ARP_REPLY", n, msg.src, r)>> ELSE <<>>

HandleLines(n, msg, r) ==
    IF msg.type = "HELLO" THEN <<Line("received_hello", n, msg.src, r)>>
    ELSE IF msg.type = "ARP" /\ msg.dst = n
         THEN <<Line("sent_arp_reply", n, msg.src, r)>>
    ELSE <<>>

\* self.inbox.get(timeout=0.5) on a Queue: the oldest message
QueueGet(q) == Head(q)

\* lines 66-85: a message is there within the timeout
DevReceive(r, n) ==
    /\ dpc[r][n] = "get"
    /\ inbox[r][n] # <<>>
    /\ LET msg == QueueGet(inbox[r][n])
       IN  /\ inbox' = [inbox EXCEPT ![r][n] = Tail(@)]
           /\ taken' = [taken EXCEPT ![r][n] = Append(@, msg)]
           /\ BROKER_QUEUE' = BROKER_QUEUE \o ReplyOf(n, msg, r)
           /\ log_collector' = LogAppendAll(log_collector, HandleLines(n, msg, r))
    /\ dpc' = [dpc EXCEPT ![r][n] = "loop"]
    /\ UNCHANGED <<topoVars, valVars, run, opc, oi, STOP_EVENT, hi, running, bpc, bmsg,
                   dequeued>>

\* lines 67-69: Empty after the timeout
DevTimeout(r, n) ==
    /\ dpc[r][n] = "get"
    /\ inbox[r][n] = <<>>
    /\ dpc' = [dpc EXCEPT ![r][n] = "loop"]
    /\ UNCHANGED <<topoVars, valVars, log_collector, run, opc, oi, STOP_EVENT, BROKER_QUEUE,
                   inbox, hi, running, bpc, bmsg, dequeued, taken>>

----------------------------------------------------------------------------
(* broker_dispatch *)

\* line 97: while not STOP_EVENT.is_set()
BrokerLoop(r) ==
    /\ bpc[r] = "loop"
    /\ bpc' = [bpc EXCEPT ![r] = IF ~STOP_EVENT THEN "get" ELSE "done"]
    /\ UNCHANGED <<topoVars, valVars, log_collector, run, opc, oi, STOP_EVENT, BROKER_QUEUE,
                   inbox, dpc, hi, running, bmsg, dequeued, taken>>

\* line 99: msg = BROKER_QUEUE.get(timeout=0.5)
BrokerGet(r) ==
    /\ bpc[r] = "get"
    /\ BROKER_QUEUE # <<>>
    /\ bmsg' = [bmsg EXCEPT ![r] = Head(BROKER_QUEUE)]
    /\ dequeued' = [dequeued EXCEPT ![r] = Append(@, Head(BROKER_QUEUE))]
    /\ BROKER_QUEUE' = Tail(BROKER_QUEUE)
    /\ bpc' = [bpc EXCEPT ![r] = "dispatch"]
    /\ UNCHANGED <<topoVars, valVars, log_collector, run, opc, oi, STOP_EVENT, inbox, dpc, hi,
                   running, taken>>

\* lines 100-101
BrokerTimeout(r) ==
    /\ bpc[r] = "get"
    /\ BROKER_QUEUE = <<>>
    /\ bpc' = [bpc EXCEPT ![r] = "loop"]
    /\ UNCHANGED <<topoVars, valVars, log_collector, run, opc, oi, STOP_EVENT, BROKER_QUEUE,
                   inbox, dpc, hi, running, bmsg, dequeued, taken>>

\* a variant that floods a message with an unknown dst to every inbox
RecipientsFlood(map, msg) ==
    IF msg.dst \in DOMAIN map THEN <<msg.dst>>
    ELSE IF msg.dst = NoDst /\ msg.src \in NodeSet(G) THEN neighbors(G, msg.src)
    ELSE G.nodes

\* lines 102-114: the inboxes a message goes to, in order
Recipients(map, msg) ==
    IF msg.dst \in DOMAIN map THEN <<msg.dst>>
    ELSE IF msg.dst = NoDst /\ msg.src \in NodeSet(G) THEN neighbors(G, msg.src)
    ELSE <<>>

\* a variant that puts at the front
QueuePutFront(q, msg) == <<msg>> \o q

\* Queue.put: at the end
QueuePut(q, msg) == Append(q, msg)

RECURSIVE PutAll(_, _, _)
PutAll(map, ns, msg) ==
    IF ns = <<>> THEN map
    ELSE PutAll([map EXCEPT ![Head(ns)] = QueuePut(@, msg)], Tail(ns), msg)

DispatchLines(ns, msg, r) ==
    [i \in 1..Len(ns) |->
        Line(IF msg.dst = NoDst THEN "broadcast" ELSE "dispatched", msg.src, ns[i], r)]

\* line 111: graph.neighbors(src) raises for a src that is no node, which ends
\* the broker thread
BrokerDies(msg) ==
    msg.dst \notin NodeSet(G) /\ msg.dst = NoDst /\ msg.src \notin NodeSet(G)

BrokerDispatch(r) ==
    /\ bpc[r] = "dispatch"
    /\ LET ns == Recipients(inbox[r], bmsg[r])
       IN  /\ inbox' = [inbox EXCEPT ![r] = PutAll(@, ns, bmsg[r])]
           /\ log_collector' = LogAppendAll(log_collector,
                                            DispatchLines(ns, bmsg[r], r))
    /\ bpc' = [bpc EXCEPT ![r] = IF BrokerDies(bmsg[r]) THEN "done" ELSE "loop"]
    /\ bmsg' = [bmsg EXCEPT ![r] = NoMsg]
    /\ UNCHANGED <<topoVars, valVars, run, opc, oi, STOP_EVENT, BROKER_QUEUE, dpc, hi, running,
                   dequeued, taken>>

----------------------------------------------------------------------------
(* The Day-1 simulation, called MaxRuns times on one built graph *)

SimConfigs == { <<PlainDevice(1), PlainDevice(2)>> }

SimLinkLists == { <<LinkAB>> }

SimInit ==
    /\ SimIdle
    /\ ValIdle
    /\ phase = "built"
    /\ \E c \in SimConfigs :
          /\ parsed_configs = Normalize(c)
          /\ links_txt \in {LinesOf(ls) : ls \in SimLinkLists}
          /\ raw_links = parse_links_file(links_txt)
          /\ G = build_topology(c, raw_links)
    /\ link_key = <<>>
    /\ log_collector = None
    /\ nfail = 0

Orchestrator ==
    \/ Call \/ Clear \/ Spawn \/ StartBroker \/ StartMsg \/ SetStop
    \/ StopThread \/ EndMsg \/ Return

DeviceStep(r, n) ==
    \/ DevStart(r, n) \/ DevHello(r, n) \/ DevLoop(r, n)
    \/ DevReceive(r, n) \/ DevTimeout(r, n)

BrokerStep(r) ==
    \/ BrokerLoop(r) \/ BrokerGet(r) \/ BrokerTimeout(r) \/ BrokerDispatch(r)

SimNext ==
    \/ Orchestrator
    \/ \E r \in 1..run : \E n \in DOMAIN dpc[r] : DeviceStep(r, n)
    \/ \E r \in 1..run : BrokerStep(r)

SpecSim == SimInit /\ [][SimNext]_vars

----------------------------------------------------------------------------
(* One call of run_day1_simulation, on a chain of three devices *)

Day1Configs == { <<PlainDevice(1), PlainDevice(2), PlainDevice(3)>> }

Day1LinkLists == { <<LinkAB, LinkBC>> }

Day1Init ==
    /\ SimIdle
    /\ ValIdle
    /\ phase = "built"
    /\ \E c \in Day1Configs :
          /\ parsed_configs = Normalize(c)
          /\ links_txt \in {LinesOf(ls) : ls \in Day1LinkLists}
          /\ raw_links = parse_links_file(links_txt)
          /\ G = build_topology(c, raw_links)
    /\ link_key = <<>>
    /\ log_collector = None
    /\ nfail = 0

\* the first call only
Day1Next == SimNext /\ run' <= 1

SpecDay1 == Day1Init /\ [][Day1Next]_vars

----------------------------------------------------------------------------
(* validate_topology; a node's "parsed" attribute is its entry of          *)
(* parsed_configs                                                          *)

RECURSIVE Concat(_)
Concat(ss) == IF ss = <<>> THEN <<>> ELSE Head(ss) \o Concat(Tail(ss))

\* Python truth of d.get(k): an int present and not 0, a str present and
\* not empty
Truthy(d, k) == Has(d, k) /\ d[k] # 0

TruthyStr(d, k) == Has(d, k) /\ d[k] # <<>>

\* lines 28-34: the (node, iface, ip) triples with a vlan and an ip, in
\* node and interface order
IfaceTriples(node, ifs) ==
    Concat([i \in 1..Len(ifs) |->
        IF Truthy(ifs[i], "vlan") /\ TruthyStr(ifs[i], "ip")
        THEN <<[node |-> node, iface |-> ifs[i].name, ip |-> ifs[i].ip,
                vlan |-> ifs[i].vlan]>>
        ELSE <<>>])

AllTriples(g, configs) ==
    Concat([i \in 1..Len(g.nodes) |->
        IfaceTriples(g.nodes[i], ConfigOf(configs, g.nodes[i]).interfaces)])

\* the keys of vlan_ips in insertion order
VlanOrder(ts) ==
    Concat([i \in 1..Len(ts) |->
        IF \E j \in 1..(i - 1) : ts[j].vlan = ts[i].vlan THEN <<>>
        ELSE <<ts[i].vlan>>])

OfVlan(ts, vlan) ==
    Concat([i \in 1..Len(ts) |-> IF ts[i].vlan = vlan THEN <<ts[i]>> ELSE <<>>])

DuplicateIP(ip, vlan, first, second) ==
    [kind |-> "DuplicateIP", ip |-> ip, vlan |-> vlan, first |-> first,
     second |-> second]

\* lines 36-41: every occurrence of an ip after its first, with the first owner
DuplicatesIn(lst) ==
    Concat([i \in 1..Len(lst) |->
        LET before == {j \in 1..(i - 1) : lst[j].ip = lst[i].ip}
        IN  IF before = {} THEN <<>>
            ELSE LET f == CHOOSE j \in before : \A m \in before : j <= m
                 IN  <<DuplicateIP(lst[i].ip, lst[i].vlan,
                                   Endpoint(lst[f].node, lst[f].iface),
                                   Endpoint(lst[i].node, lst[i].iface))>>])

DuplicateIssues(g, configs) ==
    LET ts == AllTriples(g, configs)
        vs == VlanOrder(ts)
    IN  Concat([i \in 1..Len(vs) |-> DuplicatesIn(OfVlan(ts, vs[i]))])

\* G.edges(): each node's neighbours, leaving out the nodes already done
EdgeList(g) ==
    Concat([i \in 1..Len(g.nodes) |->
        Concat([k \in 1..Len(g.adj[g.nodes[i]]) |->
            IF g.adj[g.nodes[i]][k] \in {g.nodes[j] : j \in 1..(i - 1)} THEN <<>>
            ELSE << <<g.nodes[i], g.adj[g.nodes[i]][k]>> >>])])

\* lines 93-97: the interfaces whose description names the neighbour and
\* which declare an mtu
DescHits(ifs, neighbor) ==
    {i \in 1..Len(ifs) :
        /\ Get(ifs[i], "description", <<>>) # <<>>
        /\ IsSubstr(neighbor, ifs[i].description)
        /\ Has(ifs[i], "mtu")}

\* lines 99-112: the first pair of interfaces with ip and mask and the same
\* network address: ifd.get("mtu") or nifd.get("mtu")
SubnetMtu(ifs, nifs) ==
    LET hit == {p \in (1..Len(ifs)) \X (1..Len(nifs)) :
                   /\ Has(ifs[p[1]], "ip") /\ Has(ifs[p[1]], "mask")
                   /\ Has(nifs[p[2]], "ip") /\ Has(nifs[p[2]], "mask")
                   /\ ValidNetwork(ifs[p[1]].ip, ifs[p[1]].mask)
                   /\ ValidNetwork(nifs[p[2]].ip, nifs[p[2]].mask)
                   /\ NetworkAddress(ifs[p[1]].ip, ifs[p[1]].mask)
                          = NetworkAddress(nifs[p[2]].ip, nifs[p[2]].mask)}
    IN  IF hit = {} THEN 0
        ELSE LET p == FirstPair(hit)
             IN  IF Truthy(ifs[p[1]], "mtu") THEN ifs[p[1]].mtu
                 ELSE Get(nifs[p[2]], "mtu", 0)

\* the facing MTU; 0 stands for None
_node_iface_mtu_to_neighbor(configs, node, neighbor) ==
    LET ifs == ConfigOf(configs, node).interfaces
        dh  == DescHits(ifs, neighbor)
    IN  IF dh # {} THEN ifs[CHOOSE i \in dh : \A m \in dh : i <= m].mtu
        ELSE SubnetMtu(ifs, ConfigOf(configs, neighbor).interfaces)

MtuMismatch(u, mtu_u, v, mtu_v) ==
    [kind |-> "MtuMismatch", u |-> u, mtu_u |-> mtu_u, v |-> v, mtu_v |-> mtu_v]

\* lines 44-48
MtuIssues(g, configs) ==
    LET es == EdgeList(g)
    IN  Concat([i \in 1..Len(es) |->
            LET mtu_u == _node_iface_mtu_to_neighbor(configs, es[i][1], es[i][2])
                mtu_v == _node_iface_mtu_to_neighbor(configs, es[i][2], es[i][1])
            IN  IF mtu_u # 0 /\ mtu_v # 0 /\ mtu_u # mtu_v
                THEN <<MtuMismatch(es[i][1], mtu_u, es[i][2], mtu_v)>>
                ELSE <<>>])

\* IPv4Address(dg) in IPv4Network(f"{ip}/{mask}", strict=False)
InNetwork(dg, ip, mask) ==
    /\ ValidQuad(dg)
    /\ ValidNetwork(ip, mask)
    /\ NetworkAddress(dg, mask) = NetworkAddress(ip, mask)

BadGateway(node, dg) == [kind |-> "BadGateway", node |-> node, gateway |-> dg]

\* lines 52-71
GatewayIssues(g, configs) ==
    Concat([i \in 1..Len(g.nodes) |->
        LET parsed == ConfigOf(configs, g.nodes[i])
        IN  IF ~Has(parsed, "default_gateway") THEN <<>>
            ELSE IF \E k \in 1..Len(parsed.interfaces) :
                        /\ Has(parsed.interfaces[k], "ip")
                        /\ Has(parsed.interfaces[k], "mask")
                        /\ InNetwork(parsed.default_gateway,
                                     parsed.interfaces[k].ip, parsed.interfaces[k].mask)
                 THEN <<>>
            ELSE <<BadGateway(g.nodes[i], parsed.default_gateway)>>])

\* networkx.cycle_basis, the walk from one root.  st holds the stack, pred,
\* used and the cycles found so far.

\* the cycle closed by the edge z - nbr: nbr, z, then the predecessors of z
\* up to the first one in used[nbr]
RECURSIVE CyclePath(_, _, _)
CyclePath(pred, pn, q) ==
    IF q \in pn THEN <<q>> ELSE <<q>> \o CyclePath(pred, pn, pred[q])

\* a variant that does not record in used[nbr] the edge that closed a cycle
NbrStepUnrecorded(st, z, zused, nbr) ==
    IF nbr \notin DOMAIN st.used
    THEN [st EXCEPT !.pred  = nbr :> z @@ @,
                    !.stack = Append(@, nbr),
                    !.used  = nbr :> {z} @@ @]
    ELSE IF nbr = z
    THEN [st EXCEPT !.cycles = Append(@, <<z>>)]
    ELSE IF nbr \notin zused
    THEN [st EXCEPT !.cycles = Append(@, <<nbr, z>>
                                   \o CyclePath(st.pred, st.used[nbr], st.pred[z]))]
    ELSE st

NbrStep(st, z, zused, nbr) ==
    IF nbr \notin DOMAIN st.used
    THEN [st EXCEPT !.pred  = nbr :> z @@ @,
                    !.stack = Append(@, nbr),
                    !.used  = nbr :> {z} @@ @]
    ELSE IF nbr = z
    THEN [st EXCEPT !.cycles = Append(@, <<z>>)]
    ELSE IF nbr \notin zused
    THEN [st EXCEPT !.cycles = Append(@, <<nbr, z>>
                                   \o CyclePath(st.pred, st.used[nbr], st.pred[z])),
                    !.used[nbr] = @ \cup {z}]
    ELSE st

RECURSIVE NbrLoop(_, _, _, _)
NbrLoop(st, z, zused, nbrs) ==
    IF nbrs = <<>> THEN st
    ELSE NbrLoop(NbrStep(st, z, zused, Head(nbrs)), z, zused, Tail(nbrs))

RECURSIVE CycleWalk(_, _)
CycleWalk(g, st) ==
    IF st.stack = <<>> THEN st
    ELSE LET z == st.stack[Len(st.stack)]
             popped == [st EXCEPT !.stack = SubSeq(@, 1, Len(@) - 1)]
         IN  CycleWalk(g, NbrLoop(popped, z, st.used[z], g.adj[z]))

\* the loop over connected components: the root is the node the set gives
\* first, which order says
RECURSIVE CycleComponents(_, _, _, _)
CycleComponents(g, order, gnodes, cycles) ==
    IF gnodes = {} THEN cycles
    ELSE LET root == order[CHOOSE i \in 1..Len(order) :
                              /\ order[i] \in gnodes
                              /\ \A j \in 1..(i - 1) : order[j] \notin gnodes]
             st == CycleWalk(g, [stack |-> <<root>>, pred |-> root :> root,
                                 used |-> root :> {}, cycles |-> cycles])
         IN  CycleComponents(g, order, gnodes \ DOMAIN st.pred, st.cycles)

cycle_basis(g, order) == CycleComponents(g, order, NodeSet(g), <<>>)

NetworkLoop(c) == [kind |-> "NetworkLoop", nodes |-> c]

\* lines 74-78
LoopIssues(g, order) ==
    [i \in 1..Len(cycle_basis(g, order)) |-> NetworkLoop(cycle_basis(g, order)[i])]

\* a variant that appends to the list of the call before
ValidateAppending(g, configs, order) ==
    issues \o DuplicateIssues(g, configs) \o MtuIssues(g, configs)
        \o GatewayIssues(g, configs) \o LoopIssues(g, order)

\* validate_topology(G): the four checks in order, into a fresh list
validate_topology(g, configs, order) ==
    DuplicateIssues(g, configs) \o MtuIssues(g, configs)
        \o GatewayIssues(g, configs) \o LoopIssues(g, order)

MaxValid == 2

Validate ==
    /\ phase = "built"
    /\ nvalid < MaxValid
    /\ nvalid' = nvalid + 1
    /\ issues' = validate_topology(G, parsed_configs, pop_order)
    /\ UNCHANGED <<topoVars, log_collector, simVars, pop_order, report>>

\* the orders a set of the nodes can be popped in
Perms(nodes) ==
    {p \in [1..Len(nodes) -> Range(nodes)] :
        \A i, j \in 1..Len(nodes) : p[i] = p[j] => i = j}

Ip1 == <<10, 0, 0, 1>>
Ip2 == <<10, 0, 0, 2>>

\* interface blocks with "switchport access vlan" and "ip address" lines
VlanIface(n, ip, vlan) == [name |-> n, ip |-> ip, mask |-> Mask24, vlan |-> vlan]

VlanChoices(n) ==
    { VlanIface(n, Ip1, 10), VlanIface(n, Ip1, 20), VlanIface(n, Ip1, 0),
      [name |-> n, ip |-> Ip2, mask |-> Mask24, vlan |-> 10, mtu |-> 1400],
      [name |-> n, ip |-> Ip1, mask |-> Mask24],
      [name |-> n, vlan |-> 10],
      [name |-> n, ip |-> Ip1, mask |-> Mask16, vlan |-> 10, mtu |-> 9000,
       description |-> <<"t", "o", " ", "B">>] }

Gateway == <<10, 9, 9, 9>>

ValidConfigs ==
    { <<[host |-> HostA, interfaces |-> <<e1, f1>>],
        [host |-> HostB, interfaces |-> <<e2, Plain(IfF)>>],
        c3>> :
          e1 \in VlanChoices(IfE),
          f1 \in {Plain(IfF), VlanIface(IfF, Ip1, 10), VlanIface(IfF, Ip1, 0), ToB(IfF)},
          e2 \in VlanChoices(IfE),
          c3 \in {[host |-> HostC, interfaces |-> <<e3, Plain(IfF)>>] :
                     e3 \in VlanChoices(IfE)}
                 \cup {[host |-> HostC, interfaces |-> <<Plain(IfE), Plain(IfF)>>,
                        default_gateway |-> Gateway],
                       [host |-> HostC,
                        interfaces |-> <<[name |-> IfE, ip |-> Gateway, mask |-> Mask24],
                                         Plain(IfF)>>,
                        default_gateway |-> Gateway]} }

ValidLinkLists == { <<>>, <<LinkAB>>, <<LinkAB, LinkBC>>, <<LinkAB, LinkBC, LinkCA>> }

ValidInit ==
    /\ SimIdle
    /\ phase = "built"
    /\ \E c \in ValidConfigs :
          /\ parsed_configs = Normalize(c)
          /\ links_txt \in {LinesOf(ls) : ls \in ValidLinkLists}
          /\ raw_links = parse_links_file(links_txt)
          /\ G = build_topology(c, raw_links)
    /\ link_key = <<>>
    /\ log_collector = None
    /\ nfail = 0
    /\ issues = <<>>
    /\ nvalid = 0
    /\ pop_order \in Perms(G.nodes)
    /\ report = NoReport

ValidNext == Validate

SpecValid == ValidInit /\ [][ValidNext]_vars

\* four devices with one interface each and any set of links between them
HostD == <<"D">>

LoopHosts == <<HostA, HostB, HostC, HostD>>

LoopConfigs == [i \in 1..4 |-> [host |-> LoopHosts[i], interfaces |-> <<Plain(IfE)>>]]

LoopLinks ==
    << <<Ep(HostA, IfE), Ep(HostB, IfE)>>, <<Ep(HostB, IfE), Ep(HostC, IfE)>>,
       <<Ep(HostC, IfE), Ep(HostA, IfE)>>, <<Ep(HostC, IfE), Ep(HostD, IfE)>>,
       <<Ep(HostD, IfE), Ep(HostA, IfE)>>, <<Ep(HostB, IfE), Ep(HostD, IfE)>>,
       <<Ep(HostA, IfE), Ep(HostA, IfE)>> >>

\* the links numbered in S, in file order
RECURSIVE Chosen(_, _)
Chosen(S, i) ==
    IF i > Len(LoopLinks) THEN <<>>
    ELSE (IF i \in S THEN <<LoopLinks[i]>> ELSE <<>>) \o Chosen(S, i + 1)

LoopInit ==
    /\ SimIdle
    /\ phase = "built"
    /\ parsed_configs = Normalize(LoopConfigs)
    /\ links_txt \in {LinesOf(Chosen(S, 1)) : S \in SUBSET (1..Len(LoopLinks))}
    /\ raw_links = parse_links_file(links_txt)
    /\ G = build_topology(LoopConfigs, raw_links)
    /\ link_key = <<>>
    /\ log_collector = None
    /\ nfail = 0
    /\ issues = <<>>
    /\ nvalid = 0
    /\ pop_order \in Perms(G.nodes)
    /\ report = NoReport

SpecLoops == LoopInit /\ [][ValidNext]_vars

----------------------------------------------------------------------------
(* One call of run_day1_simulation on three devices: the chain A-B-C, or   *)
(* the link A-B with C on its own                                          *)

HelloLinkLists == { <<LinkAB>>, <<LinkAB, LinkBC>> }

HelloInit ==
    /\ SimIdle
    /\ ValIdle
    /\ phase = "built"
    /\ \E c \in Day1Configs :
          /\ parsed_configs = Normalize(c)
          /\ links_txt \in {LinesOf(ls) : ls \in HelloLinkLists}
          /\ raw_links = parse_links_file(links_txt)
          /\ G = build_topology(c, raw_links)
    /\ link_key = <<>>
    /\ log_collector = None
    /\ nfail = 0

SpecHello == HelloInit /\ [][Day1Next]_vars

----------------------------------------------------------------------------
(* One call of run_day1_simulation while BROKER_QUEUE, a module global,    *)
(* is empty or already holds a message put by other code of the process    *)

Unknown == <<"X">>

\* messages of other senders carry the time stamp 0
Foreign ==
    { Msg("ARP", HostB, NoDst, 0),      \* a broadcast of B
      Msg("ARP", HostA, NoDst, 0),      \* a broadcast of A
      Msg("ARP", HostA, HostB, 0),      \* to a known device, which replies
      Msg("HELLO", HostC, Unknown, 0),  \* to an unknown device
      Msg("ARP", Unknown, NoDst, 0) }   \* a broadcast of an unknown device

BrokerInit ==
    /\ ValIdle
    /\ phase = "built"
    /\ \E c \in Day1Configs :
          /\ parsed_configs = Normalize(c)
          /\ links_txt \in {LinesOf(ls) : ls \in Day1LinkLists}
          /\ raw_links = parse_links_file(links_txt)
          /\ G = build_topology(c, raw_links)
    /\ link_key = <<>>
    /\ log_collector = None
    /\ nfail = 0
    /\ run = 0
    /\ opc = "idle"
    /\ oi = 0
    /\ STOP_EVENT = FALSE
    /\ BROKER_QUEUE \in {<<>>} \cup {<<msg>> : msg \in Foreign}
    /\ inbox = [r \in Runs |-> <<>>]
    /\ dpc = [r \in Runs |-> <<>>]
    /\ hi = [r \in Runs |-> <<>>]
    /\ running = [r \in Runs |-> <<>>]
    /\ bpc = [r \in Runs |-> "none"]
    /\ bmsg = [r \in Runs |-> NoMsg]
    /\ dequeued = [r \in Runs |-> <<>>]
    /\ taken = [r \in Runs |-> <<>>]

SpecBroker == BrokerInit /\ [][Day1Next]_vars

----------------------------------------------------------------------------
(* check_bandwidth and analyze_network.  Loads and capacities are in Mbps;  *)
(* a utilization is the pair load, capacity; scores are in hundredths.     *)

\* breadth-first search from the nodes of frontier: pred maps each node
\* reached to the node it was reached from
RECURSIVE Bfs(_, _, _)
Bfs(g, frontier, pred) ==
    IF frontier = <<>> THEN pred
    ELSE LET z   == Head(frontier)
             new == Concat([k \in 1..Len(g.adj[z]) |->
                        IF g.adj[z][k] \in DOMAIN pred
                           \/ \E j \in 1..(k - 1) : g.adj[z][j] = g.adj[z][k]
                        THEN <<>> ELSE <<g.adj[z][k]>>])
         IN  Bfs(g, Tail(frontier) \o new,
                 [n \in Range(new) |-> z] @@ pred)

RECURSIVE PathBack(_, _, _)
PathBack(pred, a, n) == IF n = a THEN <<a>> ELSE Append(PathBack(pred, a, pred[n]), n)

\* nx.shortest_path(G, a, b) by hop count; <<>> stands for NetworkXNoPath
shortest_path(g, a, b) ==
    LET pred == Bfs(g, <<a>>, a :> a)
    IN  IF b \in DOMAIN pred THEN PathBack(pred, a, b) ELSE <<>>

DemandPerPair == 10

DEFAULT_BW == 1000

\* lines 18-30: how many ordered pairs route over the edge key
PairsOver(g, key) ==
    Cardinality({p \in (1..Len(g.nodes)) \X (1..Len(g.nodes)) :
        /\ p[1] # p[2]
        /\ LET path == shortest_path(g, g.nodes[p[1]], g.nodes[p[2]])
           IN  \E k \in 1..(Len(path) - 1) : {path[k], path[k + 1]} = key})

\* lines 32-37: one entry per edge, in G.edges() order
check_bandwidth(g) ==
    LET es == EdgeList(g)
    IN  [i \in 1..Len(es) |->
            [u        |-> es[i][1],
             v        |-> es[i][2],
             capacity |-> Get(g.attr[{es[i][1], es[i][2]}], "bandwidth", DEFAULT_BW),
             load     |-> DemandPerPair * PairsOver(g, {es[i][1], es[i][2]})]]

\* line 36: utilization = load / capacity if capacity > 0 else 0.0; and
\* line 36 of analyze: max(0.0, 1 - utilization), here in thousandths
Headroom(info) ==
    IF info.capacity <= 0 THEN 1000
    ELSE IF info.load >= info.capacity THEN 0
    ELSE 1000 - (1000 * info.load) \div info.capacity

\* line 27: utilization > 0.8
Bottleneck(info) == info.capacity > 0 /\ 10 * info.load > 8 * info.capacity

RECURSIVE Sum(_)
Sum(q) == IF q = <<>> THEN 0 ELSE Head(q) + Sum(Tail(q))

\* G.degree(): a self-loop counts twice
Degree(g, n) == Len(g.adj[n]) + (IF n \in Range(g.adj[n]) THEN 1 ELSE 0)

\* num / den rounded to the nearest integer
Rounded(num, den) == (2 * num + den) \div (2 * den)

\* a variant of line 37 that gives no credit when there are no links
HeadroomScoreNoDefault(links) ==
    IF links = <<>> THEN [num |-> 0, den |-> 1]
    ELSE [num |-> 5 * Sum([i \in 1..Len(links) |-> Headroom(links[i])]),
          den |-> Len(links)]

\* lines 34-37: mean(headrooms) * 50 if headrooms else 25, in hundredths
HeadroomScore(links) ==
    IF links = <<>> THEN [num |-> 2500, den |-> 1]
    ELSE [num |-> 5 * Sum([i \in 1..Len(links) |-> Headroom(links[i])]),
          den |-> Len(links)]

\* line 33: (nodes of degree > 1 / (node_count or 1)) * 50, in hundredths
RedundancyScore(g) ==
    [num |-> 5000 * Cardinality({n \in NodeSet(g) : Degree(g, n) > 1}),
     den |-> IF Len(g.nodes) = 0 THEN 1 ELSE Len(g.nodes)]

\* analyze_network(G)["details"]
analyze_network(g) ==
    LET links == check_bandwidth(g)
        r == RedundancyScore(g)
        h == HeadroomScore(links)
    IN  [nodes       |-> Len(g.nodes),
         edges       |-> Cardinality(EdgeKeys(g)),
         links       |-> links,
         bottlenecks |-> Concat([i \in 1..Len(links) |->
                             IF Bottleneck(links[i])
                             THEN << <<links[i].u, links[i].v>> >> ELSE <<>>]),
         resiliency_score |-> Rounded(r.num * h.den + h.num * r.den, r.den * h.den)]

Analyze ==
    /\ phase = "built"
    /\ report = NoReport
    /\ report' = analyze_network(G)
    /\ UNCHANGED <<topoVars, log_collector, simVars, issues, nvalid, pop_order>>

\* interface blocks with a "bandwidth" line
Bw(n, bw) == [name |-> n, bandwidth |-> bw]

BwChoices(n) == {Plain(n), Bw(n, 100), Bw(n, 10), Bw(n, 0)}

AnalyzeConfigs ==
    { <<>>, <<PlainDevice(1)>> }
    \cup { <<[host |-> HostA, interfaces |-> <<e1, f1>>],
             [host |-> HostB, interfaces |-> <<e2, Plain(IfF)>>]>> :
               e1 \in BwChoices(IfE), f1 \in BwChoices(IfF), e2 \in BwChoices(IfE) }
    \cup { <<[host |-> HostA, interfaces |-> <<e1, f1>>],
             [host |-> HostB, interfaces |-> <<e2, Plain(IfF)>>],
             [host |-> HostC, interfaces |-> <<Plain(IfE), Plain(IfF)>>]>> :
               e1 \in BwChoices(IfE), f1 \in BwChoices(IfF), e2 \in BwChoices(IfE) }

AnalyzeInit ==
    /\ SimIdle
    /\ ValIdle
    /\ phase = "built"
    /\ \E c \in AnalyzeConfigs :
          /\ parsed_configs = Normalize(c)
          /\ links_txt \in {LinesOf(ls) : ls \in RingLinkLists}
          /\ raw_links = parse_links_file(links_txt)
          /\ G = build_topology(c, raw_links)
    /\ link_key = <<>>
    /\ log_collector = None
    /\ nfail = 0

AnalyzeNext == Analyze

SpecAnalyze == AnalyzeInit /\ [][AnalyzeNext]_vars

----------------------------------------------------------------------------
(* A caller that keeps one graph, the chain A-B-C: simulate_link_failure   *)
(* calls, then validate_topology, analyze_network and one                  *)
(* run_day1_simulation on that graph                                       *)

\* A and B declare the same address in the same vlan
SessionConfigs ==
    <<[host |-> HostA, interfaces |-> <<VlanIface(IfE, Ip1, 10), Bw(IfF, 10)>>],
      [host |-> HostB, interfaces |-> <<VlanIface(IfE, Ip1, 10), Plain(IfF)>>],
      PlainDevice(3)>>

SessionKeys == { <<"A", "-", "B">>, <<"B", "-", "C">> }

SessionInit ==
    /\ SimIdle
    /\ phase = "built"
    /\ parsed_configs = Normalize(SessionConfigs)
    /\ links_txt = LinesOf(<<LinkAB, LinkBC>>)
    /\ raw_links = parse_links_file(links_txt)
    /\ G = build_topology(SessionConfigs, raw_links)
    /\ link_key = <<>>
    /\ log_collector = None
    /\ nfail = 0
    /\ issues = <<>>
    /\ nvalid = 0
    /\ pop_order = G.nodes
    /\ report = NoReport

SessionFail == run = 0 /\ nvalid = 0 /\ \E key \in SessionKeys : FailLink(key)

SessionValidate == run = 0 /\ nvalid = 0 /\ report = NoReport /\ Validate

SessionAnalyze == run = 0 /\ nvalid > 0 /\ Analyze

SessionDay1 == report # NoReport /\ Day1Next

SessionNext == SessionFail \/ SessionValidate \/ SessionAnalyze \/ SessionDay1

SpecSession == SessionInit /\ [][SessionNext]_vars

----------------------------------------------------------------------------
(* Properties of run_day1_simulation *)

AllDone(r) == bpc[r] = "done" /\ \A n \in NodeSet(G) : dpc[r][n] = "done"

\* the number of lines of a kind about a device, whoever appended them
LineCount(lc, kind, n) ==
    LET ls == {l \in BagToSet(lc.logs) : "dev" \in DOMAIN l /\ l.kind = kind /\ l.dev = n}
    IN  BagCardinality([l \in ls |-> lc.logs[l]])

\* C1: when run_day1_simulation returns, every device thread and the broker
\* thread it started has ended (the call joins them before it returns).
C1_WorkersEndedAtReturn ==
    (opc = "idle" /\ run >= 1) => \A r \in 1..run : AllDone(r)

\* C2: the log a call returns holds exactly one "started" line and exactly
\* one "stopped" line for each device.
C2_OneStartedOneStoppedLine ==
    opc = "return" =>
        \A n \in NodeSet(G) :
            /\ LineCount(log_collector, "started", n) = 1
            /\ LineCount(log_collector, "stopped", n) = 1

\* C6: a message put on BROKER_QUEUE by a thread of one call is never taken
\* by the broker, nor received by a device, of a later call.
C6_NoMessageAcrossRuns ==
    \A r \in 1..run :
        /\ bmsg[r] # NoMsg => bmsg[r].time >= r
        /\ \A n \in DOMAIN taken[r] :
              \A i \in 1..Len(taken[r][n]) : taken[r][n][i].time >= r

\* the stop signal of call r has been raised (line 143 has run in it)
StopRaised(r) == r < run \/ (r = run /\ opc \in {"stop", "return", "idle"})

\* C7: once the stop signal of a call is raised, each of its threads that
\* wakes up and tests the loop condition sees it and ends.
C7_StopSeenAtNextWakeup ==
    [][\A r \in 1..run :
          StopRaised(r) =>
              /\ (bpc[r] = "loop" /\ bpc'[r] # "loop") => bpc'[r] = "done"
              /\ \A n \in NodeSet(G) :
                    (dpc[r][n] = "loop" /\ dpc'[r][n] # "loop") => dpc'[r][n] = "done"
      ]_vars

RECURSIVE RoutedTo(_, _, _)
RoutedTo(map, n, msgs) ==
    IF msgs = <<>> THEN <<>>
    ELSE (IF n \in Range(Recipients(map, Head(msgs))) THEN <<Head(msgs)>> ELSE <<>>)
             \o RoutedTo(map, n, Tail(msgs))

\* the messages a broker has taken and already put into inboxes
Dispatched(r) ==
    IF bpc[r] = "dispatch" THEN SubSeq(dequeued[r], 1, Len(dequeued[r]) - 1)
    ELSE dequeued[r]

\* C8: for every device, the messages it has taken followed by those waiting
\* in its inbox are, in that order, the messages for it in the order the
\* broker took them from BROKER_QUEUE.
C8_PerRecipientFifo ==
    \A r \in 1..run :
        \A n \in DOMAIN inbox[r] :
            taken[r][n] \o inbox[r][n] = RoutedTo(inbox[r], n, Dispatched(r))

\* device B took the HELLO of C before the HELLO of A
C8_Witness ==
    /\ run = 1
    /\ HostB \in DOMAIN taken[1]
    /\ Len(taken[1][HostB]) = 2
    /\ taken[1][HostB][1].src = HostC
    /\ taken[1][HostB][2].src = HostA

----------------------------------------------------------------------------
(* Properties of simulate_link_failure *)

\* nodes joined to n by a link that is up, the links of skip left out
UpNeighbors(g, n, skip) ==
    {m \in NodeSet(g) : {n, m} \in EdgeKeys(g) \ skip /\ g.attr[{n, m}].up}

RECURSIVE UpClosure(_, _, _)
UpClosure(g, S, skip) ==
    LET T == S \cup UNION {UpNeighbors(g, n, skip) : n \in S}
    IN  IF T = S THEN S ELSE UpClosure(g, T, skip)

UpComponents(g) == {UpClosure(g, {n}, {}) : n \in NodeSet(g)}

Dashes(key) == {i \in 1..Len(key) : key[i] = "-"}

KeyNode1(key) == SubSeq(key, 1, (CHOOSE i \in Dashes(key) : TRUE) - 1)

KeyNode2(key) == SubSeq(key, (CHOOSE i \in Dashes(key) : TRUE) + 1, Len(key))

\* the key is NODE1-NODE2 and names an edge of g
NamesEdge(g, key) ==
    /\ Cardinality(Dashes(key)) = 1
    /\ {KeyNode1(key), KeyNode2(key)} \in EdgeKeys(g)

LastEdge == {KeyNode1(link_key), KeyNode2(link_key)}

ComponentsLogged ==
    {l.members : l \in {x \in BagToSet(log_collector.logs) : x.kind = "component"}}

\* C3: failing an existing edge with no alternate path sets it down and logs
\* a partition warning that lists the components the failure leaves.
C3_BridgeFailurePartitions ==
    (/\ nfail > 0
     /\ NamesEdge(G, link_key)
     /\ KeyNode2(link_key) \notin UpClosure(G, {KeyNode1(link_key)}, {LastEdge}))
    => /\ ~G.attr[LastEdge].up
       /\ CopiesIn(PartitionLine, log_collector.logs) = 1
       /\ Cardinality(UpComponents(G)) > 1
       /\ ComponentsLogged = UpComponents(G)

\* C9: a key without exactly one "-", or a well-formed key naming no edge,
\* logs exactly one error line and leaves the graph as it was.
C9_BadKeyOneErrorLine ==
    [][nfail' = nfail + 1 =>
          /\ Cardinality(Dashes(link_key')) # 1 =>
                (G' = G /\ log_collector'.logs = SetToBag({InvalidLine}))
          /\ (Cardinality(Dashes(link_key')) = 1 /\ ~NamesEdge(G, link_key')) =>
                (G' = G /\ log_collector'.logs = SetToBag({NoEdgeLine}))
      ]_vars

\* after a link went down, a key with two "-" was refused
C9_Witness ==
    /\ nfail = 2
    /\ \E k \in EdgeKeys(G) : ~G.attr[k].up
    /\ Cardinality(Dashes(link_key)) = 2
    /\ log_collector.logs = SetToBag({InvalidLine})

\* the edge named last has another path of up links between its ends, and
\* that path's component is the whole graph
HasAlternatePath ==
    /\ nfail > 0
    /\ NamesEdge(G, link_key)
    /\ KeyNode2(link_key) \in UpClosure(G, {KeyNode1(link_key)}, {LastEdge})
    /\ UpClosure(G, {KeyNode1(link_key)}, {LastEdge}) = NodeSet(G)

\* C10: failing an edge of a connected graph that has an alternate path
\* sets the edge down and logs the link-down line only: no partition warning.
C10_AlternatePathNoPartition ==
    HasAlternatePath =>
        /\ ~G.attr[LastEdge].up
        /\ log_collector.logs =
               SetToBag({DownLine(KeyNode1(link_key), KeyNode2(link_key))})

\* one edge of the ring A-B, B-C, C-A has been failed
C10_Witness ==
    /\ nfail = 1
    /\ Cardinality(EdgeKeys(G)) = 3
    /\ HasAlternatePath
    /\ ~G.attr[LastEdge].up
    /\ CopiesIn(PartitionLine, log_collector.logs) = 0

----------------------------------------------------------------------------
(* Properties of build_topology *)

\* both interfaces declare ip and mask, and the two networks have the same
\* network address and prefix length
SameSubnet(ifd, ifdb) ==
    /\ Has(ifd, "ip") /\ Has(ifd, "mask") /\ Has(ifdb, "ip") /\ Has(ifdb, "mask")
    /\ ValidNetwork(ifd.ip, ifd.mask) /\ ValidNetwork(ifdb.ip, ifdb.mask)
    /\ NetworkAddress(ifd.ip, ifd.mask) = NetworkAddress(ifdb.ip, ifdb.mask)
    /\ PrefixLen(ifd.mask) = PrefixLen(ifdb.mask)

OverlapPairs(pa, pb) ==
    {p \in (1..Len(pa.interfaces)) \X (1..Len(pb.interfaces)) :
        SameSubnet(pa.interfaces[p[1]], pb.interfaces[p[2]])}

HasSource(g, a, b, src) == {a, b} \in EdgeKeys(g) /\ g.attr[{a, b}].source = src

\* C4: a pair with no explicit edge and no description hint whose interfaces
\* share a subnet gets the edge of the first such pair of interfaces, with
\* source subnet and the minimum of both MTUs and bandwidths.
C4_SubnetEdgeInferred ==
    phase = "built" =>
        \A i \in 1..Len(parsed_configs) : \A j \in (i + 1)..Len(parsed_configs) :
            LET pa == parsed_configs[i]
                pb == parsed_configs[j]
                ov == OverlapPairs(pa, pb)
                fa == pa.interfaces[FirstPair(ov)[1]]
                fb == pb.interfaces[FirstPair(ov)[2]]
            IN  (/\ ov # {}
                 /\ DescMatches(pa, pb.host) = {}
                 /\ ~HasSource(G, pa.host, pb.host, "explicit"))
                => /\ HasSource(G, pa.host, pb.host, "subnet")
                   /\ G.attr[{pa.host, pb.host}].ifaces =
                          <<Endpoint(pa.host, fa.name), Endpoint(pb.host, fb.name)>>
                   /\ G.attr[{pa.host, pb.host}].mtu =
                          Min(Get(fa, "mtu", 1500), Get(fb, "mtu", 1500))
                   /\ G.attr[{pa.host, pb.host}].bandwidth =
                          Min(Get(fa, "bandwidth", 1000), Get(fb, "bandwidth", 1000))

\* the interface record an edge's "device:interface" entry names
EndpointIface(configs, ep) ==
    IfaceOf(ConfigOf(configs, Split(ep, ":")[1]).interfaces, Split(ep, ":")[2])

MinOf(S) == CHOOSE x \in S : \A y \in S : x <= y

ListedMin(configs, e, field, default) ==
    MinOf({Get(EndpointIface(configs, e.ifaces[i]), field, default) :
              i \in 1..Len(e.ifaces)})

\* C5 as claimed: every edge's mtu and bandwidth are the minimum over the
\* interfaces its ifaces list, with 1500 / 1000 for an undeclared value.
C5_EdgeMinOfListedIfaces ==
    phase = "built" =>
        \A k \in EdgeKeys(G) :
            /\ G.attr[k].mtu = ListedMin(parsed_configs, G.attr[k], "mtu", 1500)
            /\ G.attr[k].bandwidth =
                   ListedMin(parsed_configs, G.attr[k], "bandwidth", 1000)

\* C5 amended: as claimed, except that the mtu of a desc_hint edge is the
\* minimum of its interface's MTU and 1500.
C5_EdgeMinCappedForDescHint ==
    phase = "built" =>
        \A k \in EdgeKeys(G) :
            /\ G.attr[k].mtu =
                   IF G.attr[k].source = "desc_hint"
                   THEN Min(ListedMin(parsed_configs, G.attr[k], "mtu", 1500), 1500)
                   ELSE ListedMin(parsed_configs, G.attr[k], "mtu", 1500)
            /\ G.attr[k].bandwidth =
                   ListedMin(parsed_configs, G.attr[k], "bandwidth", 1000)

\* an explicit edge between interfaces of different MTU, and a desc_hint edge
\* on an interface of MTU 9000
C5_Witness ==
    /\ phase = "built"
    /\ \E k \in EdgeKeys(G) :
          /\ G.attr[k].source = "explicit"
          /\ Get(EndpointIface(parsed_configs, G.attr[k].ifaces[1]), "mtu", 1500)
                 # Get(EndpointIface(parsed_configs, G.attr[k].ifaces[2]), "mtu", 1500)
    /\ \E k \in EdgeKeys(G) :
          /\ G.attr[k].source = "desc_hint"
          /\ Get(EndpointIface(parsed_configs, G.attr[k].ifaces[1]), "mtu", 1500) = 9000

\* the adjacency of n lists no node twice
NoRepeat(q) == \A i, j \in 1..Len(q) : q[i] = q[j] => i = j

\* C11: the graph build_topology returns has one node per hostname, at most
\* one edge per unordered device pair, and no edge from a device to itself.
C11_SimpleGraph ==
    phase = "built" =>
        /\ Len(G.nodes) = Len(parsed_configs)
        /\ NodeSet(G) = HostNames(parsed_configs)
        /\ \A n \in NodeSet(G) : NoRepeat(G.adj[n]) /\ n \notin Range(G.adj[n])
        /\ \A k \in EdgeKeys(G) : Cardinality(k) = 2

\* some line of the link file names a and b, each with an interface it has
ValidExplicitPair(configs, raw, a, b) ==
    \E n \in 1..Len(explicit_links(raw)) :
        LET l == explicit_links(raw)[n]
        IN  /\ {l[1], l[3]} = {a, b}
            /\ l[2] \in IfaceNames(ConfigOf(configs, l[1]).interfaces)
            /\ l[4] \in IfaceNames(ConfigOf(configs, l[3]).interfaces)

\* the interfaces of pa, by position, whose description contains hostname b
NamedIn(pa, b) ==
    {i \in 1..Len(pa.interfaces) :
        /\ Has(pa.interfaces[i], "description")
        /\ IsSubstr(b, pa.interfaces[i].description)}

----------------------------------------------------------------------------
(* build_topology over link files with malformed and unusable lines *)

HostA1 == <<"A", "-", "1">>

LinkConfigs ==
    { <<[host |-> HostA, interfaces |-> <<Plain(IfE), Plain(IfF)>>],
        [host |-> HostB, interfaces |-> <<Plain(IfE)>>]>>,
      <<[host |-> HostA, interfaces |-> <<Lan24(IfE, 1)>>],
        [host |-> HostB, interfaces |-> <<Lan24(IfE, 2), Plain(IfF)>>]>>,
      <<[host |-> HostA1, interfaces |-> <<Plain(IfE)>>],
        [host |-> HostB, interfaces |-> <<Plain(IfE)>>]>> }

FileLines ==
    { <<"A", ":", "e", " ", "-", " ", "B", ":", "e">>,
      <<" ", "B", ":", "E", "-", "A", ":", "f", " ">>,
      <<"A", " ", "B">>,
      <<"A", ":", "e", " ", "-", " ", "B">>,
      <<"A", " ", "-", " ", "B", ":", "e">>,
      <<"A", ":", "e", " ", "-", " ", "X", ":", "e">>,
      <<"A", ":", "e", " ", "-", " ", "B", ":", "g">>,
      <<"A", ":", "e", ":", "x", " ", "-", " ", "B", ":", "e">>,
      <<"#", "A", ":", "f", " ", "-", " ", "B", ":", "e">>,
      <<" ">>,
      <<"A", "-", "1", ":", "e", " ", "-", " ", "B", ":", "e">> }

LinksInit ==
    /\ SimIdle
    /\ ValIdle
    /\ phase = "parsed"
    /\ parsed_configs \in LinkConfigs
    /\ links_txt \in SeqsUpTo(FileLines, MaxLinks)
    /\ raw_links = <<>>
    /\ G = EmptyGraph
    /\ link_key = <<>>
    /\ log_collector = None
    /\ nfail = 0

SpecLinks == LinksInit /\ [][TopoNext]_vars

\* ep is "dev:iface" with one colon, dev a hostname and iface, stripped and
\* lowercased, an interface of that device
IsEndpoint(configs, ep) ==
    /\ Cardinality({i \in 1..Len(ep) : ep[i] = ":"}) = 1
    /\ LET i   == CHOOSE k \in 1..Len(ep) : ep[k] = ":"
           dev == Strip(SubSeq(ep, 1, i - 1))
       IN  /\ dev \in HostNames(configs)
           /\ Lower(Strip(SubSeq(ep, i + 1, Len(ep))))
                  \in IfaceNames(ConfigOf(configs, dev).interfaces)

EndpointDevice(ep) == Strip(SubSeq(ep, 1, (CHOOSE k \in 1..Len(ep) : ep[k] = ":") - 1))

\* the device pairs a line links: a "-" of the line separates two endpoints
LinkedBy(configs, line) ==
    {{EndpointDevice(SubSeq(line, 1, i - 1)), EndpointDevice(SubSeq(line, i + 1, Len(line)))} :
        i \in {k \in 1..Len(line) :
                  /\ line[k] = "-"
                  /\ IsEndpoint(configs, Strip(SubSeq(line, 1, k - 1)))
                  /\ IsEndpoint(configs, Strip(SubSeq(line, k + 1, Len(line))))}}

ExplicitKeys(g) == {k \in EdgeKeys(g) : g.attr[k].source = "explicit"}

\* C13: every malformed or unusable line of the link file is skipped, the
\* graph has one node per device record, and its explicit edges are exactly
\* those of the lines that link two interfaces the devices have.
C13_InvalidLinksSkipped ==
    phase = "built" =>
        /\ Len(G.nodes) = Len(parsed_configs)
        /\ NodeSet(G) = HostNames(parsed_configs)
        /\ ExplicitKeys(G) =
               UNION {LinkedBy(parsed_configs, links_txt[n]) : n \in 1..Len(links_txt)}

----------------------------------------------------------------------------
(* Properties of validate_topology *)

OfKind(is, kind) ==
    Concat([i \in 1..Len(is) |-> IF is[i].kind = kind THEN <<is[i]>> ELSE <<>>])

\* the interfaces, as <<device, position>>, that declare a vlan and an ip
Addressed(configs) ==
    {x \in (1..Len(configs)) \X (1..2) :
        /\ x[2] <= Len(configs[x[1]].interfaces)
        /\ Has(configs[x[1]].interfaces[x[2]], "vlan")
        /\ Has(configs[x[1]].interfaces[x[2]], "ip")}

IfaceAt(configs, x) == configs[x[1]].interfaces[x[2]]

OwnerAt(configs, x) == Endpoint(configs[x[1]].host, IfaceAt(configs, x).name)

\* the pairs of interfaces with the same vlan and the same ip
Clashes(configs) ==
    {c \in SUBSET Addressed(configs) :
        /\ Cardinality(c) = 2
        /\ \A x, y \in c : /\ IfaceAt(configs, x).vlan = IfaceAt(configs, y).vlan
                           /\ IfaceAt(configs, x).ip = IfaceAt(configs, y).ip}

\* C14: when exactly two interfaces share a vlan and an ip, validate returns
\* exactly one DuplicateIP issue, with that ip, that vlan and both owners.
C14_OneDuplicateIssue ==
    (nvalid >= 1 /\ Cardinality(Clashes(parsed_configs)) = 1) =>
        LET c == CHOOSE c \in Clashes(parsed_configs) : TRUE
            x == CHOOSE x \in c : TRUE
            d == OfKind(issues, "DuplicateIP")
        IN  /\ Len(d) = 1
            /\ d[1].ip = IfaceAt(parsed_configs, x).ip
            /\ d[1].vlan = IfaceAt(parsed_configs, x).vlan
            /\ {d[1].first, d[1].second} = {OwnerAt(parsed_configs, y) : y \in c}

\* the nodes joined to a node of S by a path of edges
RECURSIVE Joined(_, _)
Joined(g, S) ==
    LET T == S \cup {m \in NodeSet(g) : \E n \in S : {n, m} \in EdgeKeys(g)}
    IN  IF T = S THEN S ELSE Joined(g, T)

\* the number of independent cycles: edges - nodes + components
Cyclomatic(g) ==
    Cardinality(EdgeKeys(g)) - Cardinality(NodeSet(g))
        + Cardinality({Joined(g, {n}) : n \in NodeSet(g)})

\* c is a closed walk of g through distinct nodes
IsCycle(g, c) ==
    /\ NoRepeat(c)
    /\ \A i \in 1..Len(c) : {c[i], c[(i % Len(c)) + 1]} \in EdgeKeys(g)

RingABC == {{HostA, HostB}, {HostB, HostC}, {HostC, HostA}}

\* C15: validate reports one NetworkLoop per independent cycle, each a cycle
\* of the graph: the ring A-B, B-C, C-A gives one loop of its three nodes,
\* a tree gives none.
C15_OneLoopPerCycle ==
    nvalid >= 1 =>
        LET l == OfKind(issues, "NetworkLoop")
        IN  /\ Len(l) = Cyclomatic(G)
            /\ \A i \in 1..Len(l) : IsCycle(G, l[i].nodes)
            /\ \A i, j \in 1..Len(l) : l[i].nodes = l[j].nodes => i = j
            /\ EdgeKeys(G) = RingABC =>
                   Len(l) = 1 /\ Range(l[1].nodes) = {HostA, HostB, HostC}
            /\ (Cardinality(EdgeKeys(G)) = 3 /\ Joined(G, {HostA}) = NodeSet(G)) =>
                   l = <<>>

\* the ring A-B, B-C, C-A, with D apart, has been validated
C15_Witness ==
    /\ nvalid >= 1
    /\ EdgeKeys(G) = RingABC
    /\ Len(OfKind(issues, "NetworkLoop")) = 1

----------------------------------------------------------------------------
(* Properties of analyze_network *)

\* C17: for a graph with no edges, with any number of nodes or none,
\* analyze returns the resiliency score 25.00.
C17_NoEdgesScore25 ==
    (report # NoReport /\ EdgeKeys(G) = {}) => report.resiliency_score = 2500

\* a graph of three nodes and no edge was analyzed
C17_Witness ==
    /\ report # NoReport
    /\ EdgeKeys(G) = {}
    /\ Len(G.nodes) = 3
    /\ report.links = <<>>
    /\ report.resiliency_score = 2500

\* the graph of no node at all was analyzed
C17_EmptyGraphAnalyzed ==
    report # NoReport /\ G.nodes = <<>> /\ report.resiliency_score = 2500

----------------------------------------------------------------------------
(* Properties of DeviceThread and broker_dispatch *)

\* stop() has been called on the thread of device n of call r
StopIssued(r, n) == dpc[r][n] # "none" /\ ~running[r][n]

DeviceLineKinds == {"received_hello", "sent_arp_reply", "sent_hello"}

\* the log gains no line of device n of call r in this step
NoNewDeviceLine(r, n) ==
    \A l \in BagToSet(log_collector'.logs) :
        ("dev" \in DOMAIN l /\ l.dev = n /\ l.by = r /\ l.kind \in DeviceLineKinds)
            => CopiesIn(l, log_collector'.logs) <= CopiesIn(l, log_collector.logs)

\* BROKER_QUEUE gains no message of device n of call r in this step
NoNewMessage(r, n) ==
    Len(BROKER_QUEUE') > Len(BROKER_QUEUE) =>
        LET msg == BROKER_QUEUE'[Len(BROKER_QUEUE')]
        IN  ~(msg.src = n /\ msg.time = r)

\* C18: once stop() has been called on device D (its "stopped" line is in
\* the log), no later step logs D receiving a message or sending one, takes
\* a message from D's inbox, or puts a message of D on BROKER_QUEUE.
C18_StoppedDeviceSilent ==
    [][\A r \in 1..run : \A n \in DOMAIN dpc[r] :
          StopIssued(r, n) =>
              /\ NoNewDeviceLine(r, n)
              /\ NoNewMessage(r, n)
              /\ taken'[r][n] = taken[r][n]
      ]_vars

\* the inboxes the routing rule names for a message
RouteTargets(msg) ==
    IF msg.dst \in NodeSet(G) THEN {msg.dst}
    ELSE IF msg.dst = NoDst
         THEN {n \in NodeSet(G) : msg.src \in NodeSet(G) /\ n \in Range(neighbors(G, msg.src))}
    ELSE {}

\* C19: the broker puts a dequeued message whose dst is a known device in
\* that device's inbox only, a message without dst once in the inbox of each
\* neighbor of its src and in no other, and a message whose dst is unknown
\* in no inbox.
C19_BrokerRouting ==
    [][\A r \in 1..run :
          (bpc[r] = "dispatch" /\ bpc'[r] # "dispatch") =>
              \A n \in DOMAIN inbox[r] :
                  inbox'[r][n] = IF n \in RouteTargets(bmsg[r])
                                 THEN Append(inbox[r][n], bmsg[r])
                                 ELSE inbox[r][n]
      ]_vars

Received(r, n, msg) == msg \in Range(taken[r][n]) \cup Range(inbox[r][n])

\* a broadcast of B, which has the two neighbors A and C, was routed while
\* HELLO messages to known devices were routed too
C19_Witness ==
    /\ run = 1
    /\ Msg("ARP", HostB, NoDst, 0) \in Range(dequeued[1])
    /\ Received(1, HostA, Msg("ARP", HostB, NoDst, 0))
    /\ Received(1, HostC, Msg("ARP", HostB, NoDst, 0))
    /\ Received(1, HostB, Msg("HELLO", HostA, HostB, 1))
    /\ bpc[1] = "loop"

\* a message to an unknown device was routed, and the broker went on
C19_UnknownDstRouted ==
    /\ run = 1
    /\ Msg("HELLO", HostC, Unknown, 0) \in Range(dequeued[1])
    /\ Len(dequeued[1]) > 1
    /\ bpc[1] = "loop"

\* a broadcast of an unknown device ended the broker
C19_BrokerEnded ==
    /\ run = 1
    /\ Msg("ARP", Unknown, NoDst, 0) \in Range(dequeued[1])
    /\ bpc[1] = "done"
    /\ ~STOP_EVENT

Count(q, msg) == Cardinality({i \in 1..Len(q) : q[i] = msg})

\* how many times msg has been put on BROKER_QUEUE: the copies still there
\* and those the brokers have taken
PutCount(msg) ==
    Count(BROKER_QUEUE, msg) + Sum([q \in 1..run |-> Count(dequeued[q], msg)])

\* the thread of device n of call r has left its boot loop
Booted(r, n) == dpc[r][n] \in {"loop", "get", "done"}

\* C20: on start a device thread puts exactly one HELLO with src = itself
\* and dst = n on BROKER_QUEUE for each neighbor n, and none for any other
\* dst; a device without neighbors puts nothing.
C20_OneHelloPerNeighbor ==
    \A r \in 1..run : \A n \in DOMAIN dpc[r] :
        \A d \in NodeSet(G) \cup {NoDst} :
            LET c == PutCount(Msg("HELLO", n, d, r))
            IN  /\ c <= 1
                /\ d \notin Range(neighbors(G, n)) => c = 0
                /\ (Booted(r, n) /\ d \in Range(neighbors(G, n))) => c = 1

\* B, with the neighbors A and C, has started and greeted both
C20_Witness ==
    /\ run = 1
    /\ DOMAIN dpc[1] = NodeSet(G)
    /\ Booted(1, HostB)
    /\ Len(neighbors(G, HostB)) = 2
    /\ PutCount(Msg("HELLO", HostB, HostA, 1)) = 1
    /\ PutCount(Msg("HELLO", HostB, HostC, 1)) = 1

\* C, without neighbors, has started and nothing of C was put
C20_LoneDeviceStarted ==
    /\ run = 1
    /\ DOMAIN dpc[1] = NodeSet(G)
    /\ Booted(1, HostC)
    /\ neighbors(G, HostC) = <<>>
    /\ \A d \in NodeSet(G) : PutCount(Msg("HELLO", HostC, d, 1)) = 0

----------------------------------------------------------------------------
(* Properties of the message handling of DeviceThread.run *)

\* every message put on BROKER_QUEUE so far with the time stamp of call r
PutBy(r) ==
    LET all == BROKER_QUEUE \o Concat([q \in 1..run |-> dequeued[q]])
    IN  Cardinality({i \in 1..Len(all) : all[i].time = r})

\* the device of call r at n has been handed an ARP addressed to it
ArpAnswered(r) ==
    \E n \in DOMAIN taken[r] : \E i \in 1..Len(taken[r][n]) :
        taken[r][n][i].type = "ARP" /\ taken[r][n][i].dst = n

\* the (device, neighbor) pairs the threads of call r have greeted so far
Greeted(r) ==
    Sum([i \in 1..Len(G.nodes) |->
            LET n == G.nodes[i]
            IN  IF n \notin DOMAIN dpc[r] \/ dpc[r][n] \in {"none", "boot"} THEN 0
                ELSE IF dpc[r][n] = "hello" THEN hi[r][n] - 1
                ELSE Len(neighbors(G, n))])

\* what the handling of msg by device n of call r does in this step
HandledAsSpecified(r, n, msg) ==
    /\ msg.type = "HELLO" =>
          /\ BROKER_QUEUE' = BROKER_QUEUE
          /\ log_collector' = LogAppend(log_collector,
                                        Line("received_hello", n, msg.src, r))
    /\ (msg.type = "ARP" /\ msg.dst = n) =>
          BROKER_QUEUE' = Append(BROKER_QUEUE,
                                 [type |-> "ARP_REPLY", src |-> n,
                                  dst |-> msg.src, time |-> r])
    /\ (msg.type = "ARP" /\ msg.dst # n) =>
          /\ BROKER_QUEUE' = BROKER_QUEUE
          /\ log_collector' = log_collector

\* C21: a device that takes a HELLO logs the receipt and puts nothing on
\* BROKER_QUEUE; one that takes an ARP addressed to it puts exactly one
\* ARP_REPLY from itself to the ARP's src; one that takes an ARP with another
\* dst or none puts nothing.  So in a call where no ARP was answered, the
\* messages put are the HELLOs, one per (device, neighbor) pair greeted
\* (counted after each step that puts a message or moves a boot loop on).
C21_MessageHandling ==
    [][/\ \A r \in 1..run : \A n \in DOMAIN taken[r] :
             (n \in DOMAIN taken'[r] /\ Len(taken'[r][n]) > Len(taken[r][n])) =>
                 HandledAsSpecified(r, n, taken'[r][n][Len(taken'[r][n])])
       /\ (Len(BROKER_QUEUE') > Len(BROKER_QUEUE) \/ hi' # hi) =>
             \A r \in 1..run' : (~ArpAnswered(r))' => (PutBy(r) = Greeted(r))'
      ]_vars

\* B took the ARP of A addressed to it and its reply is on its way, and A
\* took the HELLO of B
C21_Witness ==
    /\ run = 1
    /\ DOMAIN taken[1] = NodeSet(G)
    /\ Msg("ARP", HostA, HostB, 0) \in Range(taken[1][HostB])
    /\ Msg("HELLO", HostB, HostA, 1) \in Range(taken[1][HostA])
    /\ PutCount(Msg("ARP_REPLY", HostB, HostA, 1)) = 1
    /\ PutBy(1) = 5

\* A and C took the broadcast ARP of B and no reply was put
C21_BroadcastTaken ==
    /\ run = 1
    /\ DOMAIN taken[1] = NodeSet(G)
    /\ Msg("ARP", HostB, NoDst, 0) \in Range(taken[1][HostA])
    /\ Msg("ARP", HostB, NoDst, 0) \in Range(taken[1][HostC])
    /\ PutBy(1) = 4

\* with nothing foreign on the queue, all three devices have greeted their
\* neighbors and every HELLO was taken
C21_HellosOnly ==
    /\ run = 1
    /\ BROKER_QUEUE = <<>>
    /\ Len(dequeued[1]) = 4
    /\ \A n \in NodeSet(G) : n \in DOMAIN dpc[1] /\ Booted(1, n) /\ inbox[1][n] = <<>>
    /\ PutBy(1) = 4

----------------------------------------------------------------------------
(* Frame properties of simulate_link_failure *)

\* C22: a failLink call leaves nodes, adjacency and the set of edges as they
\* were; the edge the key names keeps its mtu, bandwidth, ifaces and source
\* and has up = false afterwards; every other edge keeps all its attributes;
\* no up flag goes back to true, and a key naming a down edge changes nothing.
C22_FailLinkFrame ==
    [][nfail' = nfail + 1 =>
          /\ G'.nodes = G.nodes
          /\ G'.adj = G.adj
          /\ EdgeKeys(G') = EdgeKeys(G)
          /\ \A k \in EdgeKeys(G) :
                IF NamesEdge(G, link_key') /\ k = {KeyNode1(link_key'), KeyNode2(link_key')}
                THEN G'.attr[k] = [G.attr[k] EXCEPT !.up = FALSE]
                ELSE G'.attr[k] = G.attr[k]
          /\ \A k \in EdgeKeys(G) : ~G.attr[k].up => ~G'.attr[k].up
          /\ (NamesEdge(G, link_key') /\ ~G.attr[{KeyNode1(link_key'), KeyNode2(link_key')}].up)
                => G' = G
      ]_vars

\* two edges of the ring A-B, B-C, C-A have been failed one after the other;
\* the third is up and every edge still has its build-time attributes
C22_Witness ==
    /\ nfail = 2
    /\ Cardinality(EdgeKeys(G)) = 3
    /\ Cardinality({k \in EdgeKeys(G) : ~G.attr[k].up}) = 2
    /\ ~G.attr[LastEdge].up
    /\ \A k \in EdgeKeys(G) :
          /\ G.attr[k].source = "explicit"
          /\ G.attr[k].mtu = DefaultMtu
          /\ G.attr[k].bandwidth = DefaultBandwidth
          /\ Len(G.attr[k].ifaces) = 2

----------------------------------------------------------------------------
(* Properties of the MTU check of validate_topology *)

\* the own interfaces of node that face neighbor: (a) those whose description
\* names the neighbor and which carry an MTU, (b) those sharing a subnet
\* (same network address) with some interface of the neighbor
FacingByDesc(ifs, neighbor) ==
    {i \in 1..Len(ifs) :
        /\ Has(ifs[i], "description")
        /\ IsSubstr(neighbor, ifs[i].description)
        /\ Has(ifs[i], "mtu")}

FacingBySubnet(ifs, nifs) ==
    {i \in 1..Len(ifs) :
        /\ Has(ifs[i], "ip") /\ Has(ifs[i], "mask")
        /\ ValidNetwork(ifs[i].ip, ifs[i].mask)
        /\ \E j \in 1..Len(nifs) :
              /\ Has(nifs[j], "ip") /\ Has(nifs[j], "mask")
              /\ ValidNetwork(nifs[j].ip, nifs[j].mask)
              /\ NetworkAddress(ifs[i].ip, ifs[i].mask)
                     = NetworkAddress(nifs[j].ip, nifs[j].mask)}

\* the MTU of the own interface found by (a), else by (b); 0 if the endpoint
\* does not resolve
FacingMtu(configs, node, neighbor) ==
    LET ifs  == ConfigOf(configs, node).interfaces
        nifs == ConfigOf(configs, neighbor).interfaces
        a    == FacingByDesc(ifs, neighbor)
        b    == FacingBySubnet(ifs, nifs)
    IN  IF a # {} THEN ifs[CHOOSE i \in a : \A m \in a : i <= m].mtu
        ELSE IF b # {} THEN Get(ifs[CHOOSE i \in b : \A m \in b : i <= m], "mtu", 0)
        ELSE 0

MismatchesExpected ==
    LET es == EdgeList(G)
    IN  Concat([i \in 1..Len(es) |->
            LET mu == FacingMtu(parsed_configs, es[i][1], es[i][2])
                mv == FacingMtu(parsed_configs, es[i][2], es[i][1])
            IN  IF mu # 0 /\ mv # 0 /\ mu # mv
                THEN << [kind |-> "MtuMismatch", u |-> es[i][1], mtu_u |-> mu,
                         v |-> es[i][2], mtu_v |-> mv] >>
                ELSE <<>>])

\* C23: validate reports MtuMismatch(u, mtuU, v, mtuV) for an edge exactly
\* when both endpoints resolve to the MTU of an own interface facing the
\* other (by a description naming it, else by a shared subnet) and the two
\* values differ; an edge with an unresolved endpoint yields none.
C23_MtuMismatchExactly ==
    nvalid > 0 => OfKind(issues, "MtuMismatch") = MismatchesExpected

----------------------------------------------------------------------------
(* The up flag and the operations that follow a link failure *)

\* the same graph with every link up
AllUp(g) == [g EXCEPT !.attr = [k \in DOMAIN g.attr |-> [g.attr[k] EXCEPT !.up = TRUE]]]

\* the HELLO messages device n of call r has put so far
HellosPut(r, n) ==
    LET all == BROKER_QUEUE \o Concat([q \in 1..run |-> dequeued[q]])
    IN  {all[i] : i \in {j \in 1..Len(all) :
            all[j].type = "HELLO" /\ all[j].src = n /\ all[j].time = r}}

\* those it puts on the graph g
HellosOn(g, r, n) == {Msg("HELLO", n, d, r) : d \in Range(neighbors(g, n))}

----------------------------------------------------------------------------
(* Two calls of run_day1_simulation in one process *)

\* the log gains no line of a thread of call r in this step
NoNewLineOf(r) ==
    \A l \in BagToSet(log_collector'.logs) :
        l.by = r => CopiesIn(l, log_collector'.logs) <= CopiesIn(l, log_collector.logs)

\* C25: once a later call has started, the broker of an earlier call takes
\* no message from BROKER_QUEUE and no thread of the earlier call appends a
\* line to the log.
C25_EarlierWorkersTakeNoPart ==
    [][\A r \in 1..run :
          r < run =>
              /\ dequeued'[r] = dequeued[r]
              /\ NoNewLineOf(r)
      ]_vars

====
